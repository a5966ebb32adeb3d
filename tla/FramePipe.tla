------------------------------ MODULE FramePipe ------------------------------
(***************************************************************************)
(* A picture's way from the PC to the watch.  The Bluetooth driver of      *)
(* lcd4linux (drv_Bluetooth.c) writes the frame buffer to an RFCOMM socket *)
(* whenever its timer finds it dirty.  On the phone the thread DataShifter *)
(* collects the bytes of a frame and broadcasts it, unless it is paused,   *)
(* and the receiver of SWControlExtension shows it on the watch, while the *)
(* watch has the extension started.                                        *)
(*                                                                         *)
(* A frame is cut into Units parts, the pieces in which the byte stream is *)
(* written and read; the picture itself is a number.                       *)
(***************************************************************************)
EXTENDS Integers, Sequences

CONSTANTS
    MaxPictures,   \* bound: pictures that are drawn
    Units,         \* parts of a frame
    SocketRoom,    \* parts that the socket buffers between PC and phone hold
    MaxQueue       \* bound: broadcasts under way

ASSUME PipeAssumption ==
    /\ MaxPictures \in Nat \ {0}
    /\ Units \in Nat \ {0}
    /\ SocketRoom \in Nat \ {0}
    /\ MaxQueue \in Nat \ {0}

VARIABLES
    picture,      \* drv_BT_FB: the picture in the driver's frame buffer
    dirty,        \* the frame buffer changed since the last flush
    driver,       \* "start", "idle", or in drv_BT_socket_push: "first", "push"
    bitbuf,       \* the picture that is pushed
    written,      \* parts of it that were written
    connected,    \* the driver's flag
    link,         \* RFCOMM: "none" yet, "up", or "down" for good
    stream,       \* the parts in the socket buffers
    shifter,      \* DataShifter.run: "read", "check", "paused" or "done"
    buffer,       \* DataShifter: the parts read of the current frame
    isPaused,
    broadcasts,   \* frames that Android has still to deliver
    started,      \* the watch shows the extension: mImageReceiver is registered
    display       \* what the watch shows: a frame, or nothing yet

pcVars == <<picture, dirty, driver, bitbuf, written, connected>>
phoneVars == <<shifter, buffer, isPaused, broadcasts>>
watchVars == <<started, display>>
pipeVars == <<pcVars, link, stream, phoneVars, watchVars>>

Parts == [picture : 1..MaxPictures, part : 1..Units]

PipeTypeOK ==
    /\ picture \in 1..MaxPictures
    /\ bitbuf \in 1..MaxPictures
    /\ dirty \in BOOLEAN /\ connected \in BOOLEAN
    /\ driver \in {"start", "idle", "first", "push"}
    /\ written \in 0..Units
    /\ link \in {"none", "up", "down"}
    /\ stream \in Seq(Parts) /\ Len(stream) <= SocketRoom
    /\ shifter \in {"read", "check", "paused", "done"}
    /\ buffer \in Seq(Parts) /\ Len(buffer) < Units
    /\ isPaused \in BOOLEAN /\ started \in BOOLEAN
    /\ broadcasts \in Seq([1..Units -> Parts])
    /\ display \in [1..Units -> Parts] \cup {<<>>}

-----------------------------------------------------------------------------
PipeInit ==
    /\ picture = 1 /\ dirty = TRUE
    /\ driver = "start" /\ bitbuf = 1 /\ written = 0
    /\ connected = FALSE /\ link = "none"
    /\ stream = <<>>
    /\ shifter = "read" /\ buffer = <<>> /\ isPaused = FALSE
    /\ broadcasts = <<>>
    /\ started = FALSE /\ display = <<>>

\* drv_BT_start connects, and flushes the frame buffer for the first time.
Connect ==
    /\ driver = "start"
    /\ connected' = TRUE /\ link' = "up"
    /\ driver' = "first"
    /\ UNCHANGED <<picture, dirty, bitbuf, written, stream, phoneVars, watchVars>>

\* It goes on if the phone cannot be connected to.
ConnectFails ==
    /\ driver = "start"
    /\ driver' = "idle"
    /\ UNCHANGED <<picture, dirty, bitbuf, written, connected, link, stream, phoneVars, watchVars>>

\* Variant for mutation: changed pixels are copied, the flag is not set.
BlitUnmarked ==
    /\ driver = "idle"
    /\ picture < MaxPictures
    /\ picture' = picture + 1
    /\ UNCHANGED <<dirty, driver, bitbuf, written, connected, link, stream, phoneVars, watchVars>>

\* drv_BT_blit: a widget draws other pixels.
Blit ==
    /\ driver = "idle"
    /\ picture < MaxPictures
    /\ picture' = picture + 1
    /\ dirty' = TRUE
    /\ UNCHANGED <<driver, bitbuf, written, connected, link, stream, phoneVars, watchVars>>

\* drv_BT_timer finds the frame buffer dirty.  Without a connection the push
\* does nothing, which counts as success.
Flush ==
    /\ driver = "idle"
    /\ dirty
    /\ bitbuf' = picture
    /\ IF connected THEN driver' = "push" /\ UNCHANGED dirty
                    ELSE driver' = "idle" /\ dirty' = FALSE
    /\ UNCHANGED <<picture, written, connected, link, stream, phoneVars, watchVars>>

\* The push returns, to drv_BT_start or to drv_BT_timer.
Pushed ==
    /\ driver' = "idle"
    /\ written' = 0
    /\ dirty' = IF driver = "push" THEN FALSE ELSE dirty

\* Variant for mutation: write leaves out what does not fit in the socket buffers.
WriteSkips ==
    /\ driver \in {"first", "push"}
    /\ link = "up"
    /\ stream' = IF Len(stream) < SocketRoom
                 THEN Append(stream, [picture |-> bitbuf, part |-> written + 1])
                 ELSE stream
    /\ IF written + 1 = Units THEN Pushed
                              ELSE written' = written + 1 /\ UNCHANGED <<driver, dirty>>
    /\ UNCHANGED <<picture, bitbuf, connected, link, phoneVars, watchVars>>

\* write copies the next part to the socket; it blocks, and with it the main loop
\* of lcd4linux, while the buffers are full.
Write ==
    /\ driver \in {"first", "push"}
    /\ link = "up"
    /\ Len(stream) < SocketRoom
    /\ stream' = Append(stream, [picture |-> bitbuf, part |-> written + 1])
    /\ IF written + 1 = Units THEN Pushed
                              ELSE written' = written + 1 /\ UNCHANGED <<driver, dirty>>
    /\ UNCHANGED <<picture, bitbuf, connected, link, phoneVars, watchVars>>

\* write fails or ends early because the link is gone; nobody is told, and the
\* driver stays "connected".
WriteFails ==
    /\ driver \in {"first", "push"}
    /\ link = "down"
    /\ Pushed
    /\ UNCHANGED <<picture, bitbuf, connected, link, stream, phoneVars, watchVars>>

\* The phone or the PC goes out of reach.
LinkBreaks ==
    /\ link = "up"
    /\ link' = "down"
    /\ UNCHANGED <<pcVars, stream, phoneVars, watchVars>>

-----------------------------------------------------------------------------
\* DataShifter runs once a PC is connected.
Shifting(place) == link # "none" /\ shifter = place

\* read returns n parts; once the frame is complete it is broadcast.
Read(n) ==
    /\ Shifting("read")
    /\ n <= Len(stream) /\ n <= Units - Len(buffer)
    /\ stream' = SubSeq(stream, n + 1, Len(stream))
    /\ LET filled == buffer \o SubSeq(stream, 1, n)
       IN  IF Len(filled) < Units
           THEN /\ buffer' = filled
                /\ UNCHANGED <<shifter, broadcasts>>
           ELSE /\ Len(broadcasts) < MaxQueue
                /\ broadcasts' = Append(broadcasts, filled)
                /\ buffer' = <<>>
                /\ shifter' = "check"
    /\ UNCHANGED <<pcVars, link, isPaused, watchVars>>

\* The stream has ended: the bytes read so far are reported to the UI, and the
\* next round reads again.
ReadEnd ==
    /\ Shifting("read")
    /\ link = "down" /\ stream = <<>>
    /\ buffer' = <<>>
    /\ shifter' = "check"
    /\ UNCHANGED <<pcVars, link, stream, isPaused, broadcasts, watchVars>>

\* Or read throws, which ends the thread.
ReadThrows ==
    /\ Shifting("read")
    /\ link = "down"
    /\ shifter' = "done"
    /\ UNCHANGED <<pcVars, link, stream, buffer, isPaused, broadcasts, watchVars>>

\* Between two frames, and every 250 ms while paused, the flag is looked at.
Check ==
    /\ Shifting("check") \/ Shifting("paused")
    /\ shifter' = IF isPaused THEN "paused" ELSE "read"
    /\ UNCHANGED <<pcVars, link, stream, buffer, isPaused, broadcasts, watchVars>>

\* The button of MainActivity pauses or resumes the thread.
Pause ==
    /\ link # "none"
    /\ isPaused' = ~isPaused
    /\ UNCHANGED <<pcVars, link, stream, shifter, buffer, broadcasts, watchVars>>

\* MainActivity is destroyed: the thread is interrupted and its stream closed,
\* and with it the socket.
Stop ==
    /\ link # "none"
    /\ shifter # "done"
    /\ shifter' = "done"
    /\ link' = "down"
    /\ UNCHANGED <<pcVars, stream, buffer, isPaused, broadcasts, watchVars>>

\* Android delivers a broadcast: mImageReceiver shows it, if it is registered.
Deliver ==
    /\ broadcasts # <<>>
    /\ broadcasts' = Tail(broadcasts)
    /\ display' = IF started THEN Head(broadcasts) ELSE display
    /\ UNCHANGED <<pcVars, link, stream, shifter, buffer, isPaused, started>>

\* The watch starts or stops the extension: onStart, onStop.
StartStop ==
    /\ started' = ~started
    /\ UNCHANGED <<pcVars, link, stream, phoneVars, display>>

PipeNext ==
    \/ Connect \/ ConnectFails
    \/ Blit \/ Flush \/ Write \/ WriteFails
    \/ LinkBreaks
    \/ \E n \in 1..Units : Read(n)
    \/ ReadEnd \/ ReadThrows
    \/ Check \/ Pause \/ Stop
    \/ Deliver \/ StartStop

PipeSpec == PipeInit /\ [][PipeNext]_pipeVars

\* lcd4linux' timer calls the driver, both programs run on, Android delivers.
\* Nothing is assumed of users, of the watch, or of the link.
PipeFairness ==
    /\ WF_pipeVars(Flush)
    /\ WF_pipeVars(Write)
    /\ WF_pipeVars(WriteFails)
    /\ WF_pipeVars(\E n \in 1..Units : Read(n))
    /\ WF_pipeVars(ReadEnd \/ ReadThrows)
    /\ WF_pipeVars(Check)
    /\ WF_pipeVars(Deliver)

PipeFairSpec == PipeSpec /\ PipeFairness

-----------------------------------------------------------------------------
(* Properties. *)

\* A frame that holds all parts of one picture, each in its place.
Whole(frame, p) == \A k \in 1..Units : frame[k] = [picture |-> p, part |-> k]

\* However the byte stream is cut, paused and broken off, what is broadcast and
\* what the watch shows is never put together from two frames.
NoTornFrame ==
    /\ \A i \in DOMAIN broadcasts : \E p \in 1..picture : Whole(broadcasts[i], p)
    /\ display # <<>> => \E p \in 1..picture : Whole(display, p)

\* The picture that a frame depicts; a torn frame depicts none that was ever drawn.
Depicted(frame) ==
    IF \E p \in 1..picture : Whole(frame, p) THEN frame[1].picture ELSE MaxPictures + 1

\* The watch shows whole pictures that the PC has drawn (drv_BT_blit), and never an
\* older one after a newer one: the chain implements PictureFeed.
Feed == INSTANCE PictureFeed
            WITH latest <- picture,
                 shown  <- IF display = <<>> THEN 0 ELSE Depicted(display)

FeedSpec == Feed!FeedSpec

\* If the watch had the extension started before the PC connected, the link holds
\* and the phone is not paused for good, the watch comes to show the last picture
\* drawn: no change of the frame buffer is lost between drv_BT_blit and showBitmap.
LastPictureShown ==
    ([](link # "none" => started) /\ <>[](link = "up" /\ ~isPaused))
    => <>[](display # <<>> /\ Depicted(display) = picture)

=============================================================================
