----------------------------- MODULE TextDrivers -----------------------------
(***************************************************************************)
(* The drivers of text displays: what they clear when they start, where    *)
(* they put text and the pictures of chars, in which transfers, and which  *)
(* of these they send again when one fails.  All of them are called by the  *)
(* common part of text drivers (drv_generic_text.c).                       *)
(*                                                                         *)
(* Some displays are HD44780s, some are told a row and a column, some have *)
(* all cells in one line.  What a display is known to do is told from the  *)
(* commands that the drivers send.                                         *)
(***************************************************************************)
EXTENDS HD44780

CONSTANTS
    Panels,     \* drivers and the displays they are used with
    Edges,      \* columns where runs begin and end
    FaultsAt,   \* which transfers of a write may fail
    MaxRuns     \* bound on the runs written, and chars defined

VARIABLES
    cells,      \* of drivers that always send whole rows: the cells
    queue,      \* of LCD2USB: what its buffer holds of a start
    wanted,     \* history: the run that the text driver wrote last to each cell
    defined,    \* history: the run that defined a char last
    fault,      \* history: a request or an answer that was lost, in which run
    runs        \* how many runs there have been

textDriverVars == <<panel, memory, cells, queue, wanted, defined, fault, runs>>

RowCol(row, col) == 256 * row + col

\* Drivers whose display is told a row and a column, counted from 0 or from 1.
CountsFrom1 == {"BeckmannEgle CT", "LW_ABP", "MatrixOrbital", "MatrixOrbital full", "WincorNixdorf",
                "SimpleLCD vt100", "Curses"}
CountsFrom0 == {"BeckmannEgle MT", "Crystalfontz 1", "Crystalfontz 2", "Crystalfontz 3", "Cwlinux",
                "PHAnderson", "picoLCD", "Sample"}
\* Drivers of displays that have all cells in one line.
OneLine == {"EFN", "FutabaVFD", "LCDLinux", "Noritake", "ShuttleVFD", "SimpleLCD"}
NotHD44780 == CountsFrom1 \cup CountsFrom0 \cup OneLine
\* Drivers that send again what failed or was not understood, send everything twice, or
\* everything with each run.  The others only write an error to the log.
Repairing == {"LCD2USB", "IRLCD", "ULA200", "ASTUSB", "EFN", "ShuttleVFD"}
\* Drivers that keep a copy of the display, and send more than what has changed.
Buffered == {"ShuttleVFD", "SimpleLCD", "MatrixOrbital full", "Crystalfontz 2"}

-----------------------------------------------------------------------------
(* HD44780s behind other buses. *)

\* Two lines of 40; 16x4 displays have the third row behind the first 16, others behind 20.
Address20(row, col) == (row % 2) * 64 + (row \div 2) * 20 + col
Address(row, col) == IF Cols = 16 /\ Rows = 4 THEN (row % 2) * 64 + (row \div 2) * 16 + col
                     ELSE Address20(row, col)
AnySize == Rows >= 1 /\ Cols >= 1
Refused == <<>>

\* There are two controllers behind a display of more than 2 x 20, but all that tells them
\* apart is lost: the mask of controllers stays 0, and the index is not used.
ASTUSB == [CHARS |-> 8, CHAR0 |-> 0]
ASTUSB_start == IF AnySize THEN <<Clear(1)>> ELSE Refused
ASTUSB_write(row, col, chars) ==
    LET tmpRow == IF Rows > 2 /\ Cols > 20 /\ row > 1 THEN row - 2 ELSE row
    IN  <<Move(1, Address(tmpRow, col)), Put(1, chars)>>
ASTUSB_defchar(ascii, matrix) == <<Move(1, CharAddress(ascii)), Put(1, matrix)>>
\* Data are sent again by a device that was opened again, commands are not.
ASTUSB_repeats(t) == t.chars # <<>>

\* BWCT sends byte by byte, and LCDTerm so over a serial line.
BWCT == [CHARS |-> 8, CHAR0 |-> 0]
BWCT_start == IF AnySize THEN <<Clear(1)>> ELSE Refused
BWCT_write(row, col, chars) == <<Move(1, Address(row, col))>> \o PutEach(1, chars)
BWCT_defchar(ascii, matrix) == <<Move(1, CharAddress(ascii))>> \o PutEach(1, matrix)

LCDTerm == [CHARS |-> 8, CHAR0 |-> 0]
LCDTerm_start == IF AnySize THEN <<Clear(1)>> ELSE Refused
LCDTerm_write(row, col, chars) == <<Move(1, Address(row, col))>> \o PutEach(1, chars)
LCDTerm_defchar(ascii, matrix) == <<Move(1, CharAddress(ascii))>> \o PutEach(1, matrix)

IRLCD == [CHARS |-> 8, CHAR0 |-> 0]
IRLCD_start == IF AnySize THEN <<Clear(1)>> ELSE Refused
IRLCD_write(row, col, chars) == <<Move(1, Address20(row, col)), Put(1, chars)>>
IRLCD_defchar(ascii, matrix) == <<Move(1, CharAddress(ascii)), Put(1, matrix)>>

\* drv_L2U_enqueue: up to four bytes of a kind and for a controller are one packet.  Displays
\* of more than 2 x 20 have a second controller.  The two bytes of drv_L2U_clear do not fill
\* the buffer: they go out before the next write, or definition of a char.
BUFFER_MAX_CMD == 4
Packets(c, chars) ==
    [i \in 1..(Len(chars) + BUFFER_MAX_CMD - 1) \div BUFFER_MAX_CMD |->
        Put(c, SubSeq(chars, (i - 1) * BUFFER_MAX_CMD + 1, Min({i * BUFFER_MAX_CMD, Len(chars)})))]
LCD2USB == [CHARS |-> 8, CHAR0 |-> 0]
LCD2USB_start == IF AnySize THEN [c \in Controllers |-> Clear(c)] ELSE Refused
LCD2USB_write(row, col, chars) ==
    LET second == Rows > 2 /\ Cols > 20 /\ row > 1
        c == IF second /\ 2 \in Controllers THEN 2 ELSE 1
    IN  <<Move(c, Address(IF second THEN row - 2 ELSE row, col))>> \o Packets(c, chars)
LCD2USB_defchar(ascii, matrix) ==
    FlattenSeq([c \in Controllers |-> <<Move(c, CharAddress(ascii))>> \o Packets(c, matrix)])

\* Commands and data are collected, and sent in one transfer.
USBLCD == [CHARS |-> 8, CHAR0 |-> 0]
USBLCD_start == IF AnySize THEN <<Clear(1)>> ELSE Refused
USBLCD_write(row, col, chars) == <<MoveAndPut(1, Address(row, col), chars)>>
USBLCD_defchar(ascii, matrix) == <<MoveAndPut(1, CharAddress(ascii), matrix)>>

\* Two rows only; 20x4 displays have four lines of 32.
Trefon == [CHARS |-> 8, CHAR0 |-> 1]
Trefon_valid_resolution == <<Rows, Cols>> \in {<<1, 8>>, <<2, 16>>, <<4, 20>>}
Trefon_start == IF Trefon_valid_resolution THEN <<Clear(1)>> ELSE Refused
Trefon_write(row, col, chars) == <<MoveAndPut(1, row * (IF Rows = 4 THEN 32 ELSE 64) + col, chars)>>
Trefon_defchar(ascii, matrix) == <<MoveAndPut(1, CharAddress(ascii), matrix)>>

\* 2 x 16 only, byte by byte.
FW8888 == [CHARS |-> 0, CHAR0 |-> 0]
FW8888_start == IF <<Rows, Cols>> = <<2, 16>> THEN <<Clear(1)>> ELSE Refused
FW8888_set_cursor(row, col) == IF row \in {0, 1} THEN <<Move(1, row * 64 + col)>> ELSE <<>>
FW8888_write(row, col, chars) == FW8888_set_cursor(row, col) \o PutEach(1, chars)

MilfordInstruments == [CHARS |-> 8, CHAR0 |-> 0]
MilfordInstruments_start ==
    IF <<Rows, Cols>> \in {<<2, 16>>, <<2, 20>>, <<2, 40>>, <<4, 20>>} THEN <<Clear(1)>> ELSE Refused
MilfordInstruments_write(row, col, chars) ==
    LET ddbase == (IF row \in {1, 3} THEN 64 ELSE 0) + (IF row \in {2, 3} THEN 20 ELSE 0)
    IN  <<Move(1, ddbase + col), Put(1, chars)>>
MilfordInstruments_defchar(ascii, matrix) ==
    IF ascii < 8 THEN <<MoveAndPut(1, CharAddress(ascii), matrix)>> ELSE <<>>

\* The starts of four rows; the display takes no others.
FourRows == <<0, 64, 20, 84>>
Newhaven == [CHARS |-> 8, CHAR0 |-> 0]
Newhaven_start == IF Rows \in 1..4 /\ Cols \in 1..20 THEN <<Clear(1)>> ELSE Refused
Newhaven_write(row, col, chars) ==
    IF row \in 0..3 THEN <<Move(1, FourRows[row + 1] + col), Put(1, chars)>> ELSE <<>>
Newhaven_defchar(ascii, matrix) == <<MoveAndPut(1, CharAddress(ascii), matrix)>>

\* Byte by byte, since the display has no buffer.
Pertelian == [CHARS |-> 8, CHAR0 |-> 0]
Pertelian_start == IF AnySize THEN <<Clear(1)>> ELSE Refused
Pertelian_write(row, col, chars) == <<Move(1, FourRows[row + 1] + col)>> \o PutEach(1, chars)
Pertelian_defchar(ascii, matrix) == <<Move(1, CharAddress(ascii))>> \o PutEach(1, matrix)

RouterBoard == [CHARS |-> 8, CHAR0 |-> 0]
RouterBoard_start == IF AnySize THEN <<Clear(1)>> ELSE Refused
RouterBoard_goto(row, col) ==
    LET halved == Cols = 16 /\ Rows = 1 /\ col > 7
        r == IF halved THEN row + 1 ELSE row
        k == IF halved THEN col - 8 ELSE col
    IN  IF panel.hd66712 THEN r * 32 + k ELSE Address(r, k)
RouterBoard_write(row, col, chars) == <<Move(1, RouterBoard_goto(row, col)), Put(1, chars)>>
RouterBoard_defchar(ascii, matrix) == <<Move(1, CharAddress(ascii)), Put(1, matrix)>>

\* The adapter counts columns of two lines, and the third row is behind the first one.
ULA200 == [CHARS |-> 7, CHAR0 |-> 1]
ULA200_start == IF AnySize THEN <<Clear(1)>> ELSE Refused
ULA200_set_position(x, y) == IF y >= 2 THEN (y - 2) * 64 + x + Cols ELSE y * 64 + x
ULA200_write(row, col, chars) == <<Move(1, ULA200_set_position(col, row)), Put(1, chars)>>
ULA200_defchar(ascii, matrix) ==
    IF ascii >= 8 THEN <<>> ELSE <<Move(1, CharAddress(ascii))>> \o PutEach(1, matrix)

\* Lines of an M50530 share its 256 words with the pictures of chars; eight rows are the
\* halves of four lines.
M50530_DDRAM ==
    CASE Cols * Rows > 224 -> 256 [] Cols * Rows \in 193..224 -> 224
      [] Cols * Rows \in 161..192 -> 192 [] OTHER -> 160
FONT5X11 == panel.driver = "M50530 5x11"
M50530 == [CHARS |-> CASE M50530_DDRAM = 256 -> 0 [] M50530_DDRAM = 224 -> IF FONT5X11 THEN 2 ELSE 4
                       [] M50530_DDRAM = 192 -> IF FONT5X11 THEN 4 ELSE 8
                       [] OTHER -> IF FONT5X11 THEN 6 ELSE 12,
           CHAR0 |-> 248]
M50530_start == IF AnySize /\ Cols * Rows <= 256 THEN <<Clear(1)>> ELSE Refused
M50530_write(row, col, chars) ==
    LET line == M50530_DDRAM \div 4
    IN  <<Move(1, IF row < 4 THEN row * line + col ELSE (row - 4) * line + line \div 2 + col)>>
        \o PutEach(1, chars)
M50530_defchar(ascii, matrix) == <<Move(1, M50530_DDRAM + 8 * (ascii - M50530.CHAR0))>> \o PutEach(1, matrix)

-----------------------------------------------------------------------------
(* Displays that are told a row and a column. *)

BeckmannEgleSizes == {<<r, c>> : r \in {1, 2}, c \in {16, 20, 24, 32, 40}} \cup {<<4, 16>>, <<4, 20>>, <<4, 40>>}
BeckmannEgle_MT == [CHARS |-> 8, CHAR0 |-> 0]
BeckmannEgle_MT_start == IF <<Rows, Cols>> \in BeckmannEgleSizes THEN <<Clear(1)>> ELSE Refused
BeckmannEgle_MT_write(row, col, chars) == <<Move(1, RowCol(row, col)), Put(1, chars)>>
BeckmannEgle_MT_defchar(ascii, matrix) == <<MoveAndPut(1, CharAddress(ascii), matrix)>>

\* The size of the compact terminal may be changed.
BeckmannEgle_CT == [CHARS |-> 8, CHAR0 |-> 128]
BeckmannEgle_CT_start == IF AnySize THEN <<Clear(1)>> ELSE Refused
BeckmannEgle_CT_write(row, col, chars) == <<Move(1, RowCol(row + 1, col + 1)), Put(1, chars)>>
BeckmannEgle_CT_defchar(ascii, matrix) == <<MoveAndPut(1, CGRAM + 8 * (ascii - BeckmannEgle_CT.CHAR0), matrix)>>

\* Three protocols of Crystalfontz displays: with a command for the cursor, with rows of 16
\* in a packet, and with packets of a column, a row and text.
Crystalfontz == [CHARS |-> 8, CHAR0 |-> IF panel.driver = "Crystalfontz 1" THEN 128 ELSE 0]
Crystalfontz_start ==
    LET sizes == CASE panel.driver = "Crystalfontz 1" -> {<<2, 16>>, <<4, 20>>}
                   [] panel.driver = "Crystalfontz 2" -> {<<2, 16>>}
                   [] OTHER -> {<<2, 20>>, <<4, 20>>}
    IN  IF <<Rows, Cols>> \in sizes THEN <<Clear(1)>> ELSE Refused
Crystalfontz_write1(row, col, chars) == <<Move(1, RowCol(row, col)), Put(1, chars)>>
Crystalfontz_write2(row, col, line) ==
    IF row >= 2 THEN <<>> ELSE <<MoveAndPut(1, RowCol(row, 0), SubSeq(line, 1, 16))>>
Crystalfontz_write3(row, col, chars) ==
    IF row >= Rows THEN <<>>
    ELSE <<MoveAndPut(1, RowCol(row, col), SubSeq(chars, 1, Min({Len(chars), Cols - col})))>>
Crystalfontz_defchar(ascii, matrix) == <<MoveAndPut(1, CGRAM + 8 * (ascii - Crystalfontz.CHAR0), matrix)>>

Cwlinux == [CHARS |-> IF Rows = 2 THEN 8 ELSE 16, CHAR0 |-> 1]
Cwlinux_start == IF <<Rows, Cols>> \in {<<2, 16>>, <<4, 20>>, <<4, 21>>} THEN <<Clear(1)>> ELSE Refused
Cwlinux_write(row, col, chars) == <<Move(1, RowCol(row, col)), Put(1, chars)>>
Cwlinux_defchar(ascii, matrix) == <<MoveAndPut(1, CGRAM + 8 * ascii, matrix)>>

\* drv_LW_ABP_write leaves the column out where it is the first one.
LW_ABP == [CHARS |-> 0, CHAR0 |-> 0]
LW_ABP_start == IF AnySize THEN <<Clear(1)>> ELSE Refused
LW_ABP_write(row, col, chars) == <<Move(1, RowCol(row + 1, col + 1)), Put(1, chars)>>

MatrixOrbital == [CHARS |-> 8, CHAR0 |-> 0]
MatrixOrbitalSizes == {<<2, 8>>, <<2, 16>>, <<2, 20>>, <<2, 40>>, <<4, 16>>, <<4, 20>>, <<4, 40>>}
MatrixOrbital_write(row, col, chars) == <<Move(1, RowCol(row + 1, col + 1)), Put(1, chars)>>
MatrixOrbital_defchar(ascii, matrix) == <<MoveAndPut(1, CGRAM + 8 * ascii, matrix)>>
\* Protocols 3 and 4 send full lines.  Their drv_MO_clear passes the row as the column, and
\* clears no row but the second.
MatrixOrbital_full_write(row, col, line) == <<Move(1, RowCol(row + 1, 1)), Put(1, line)>>
MatrixOrbital_clear ==
    IF panel.driver = "MatrixOrbital" THEN <<Clear(1)>>
    ELSE FlattenSeq([i \in 1..Rows |-> MatrixOrbital_full_write(1, i, [k \in 1..Cols |-> Blank])])
MatrixOrbital_start ==
    IF <<Rows, Cols>> \in (IF panel.driver = "MatrixOrbital" THEN MatrixOrbitalSizes
                           ELSE {<<2, 16>>, <<4, 20>>})
    THEN MatrixOrbital_clear ELSE Refused

PHAnderson == [CHARS |-> 8, CHAR0 |-> 0]
PHAnderson_start == IF AnySize THEN <<Clear(1)>> ELSE Refused
PHAnderson_write(row, col, chars) == <<Move(1, RowCol(row, 10 * (col \div 10) + (col % 10))), Put(1, chars)>>
PHAnderson_defchar(ascii, matrix) == <<MoveAndPut(1, CGRAM + 8 * ascii, matrix)>>

picoLCD == [CHARS |-> 8, CHAR0 |-> 0]
picoLCD_start == IF AnySize THEN <<Clear(1)>> ELSE Refused
picoLCD_write(row, col, chars) == <<MoveAndPut(1, RowCol(row, col), chars)>>
picoLCD_defchar(ascii, matrix) == <<MoveAndPut(1, CGRAM + 8 * ascii, matrix)>>

Sample == [CHARS |-> 8, CHAR0 |-> 0]
Sample_start == IF AnySize THEN <<Clear(1)>> ELSE Refused
Sample_write(row, col, chars) == <<Move(1, RowCol(row, col)), Put(1, chars)>>
Sample_defchar(ascii, matrix) == <<MoveAndPut(1, CGRAM + 8 * ascii, matrix)>>

\* The digits '0' + col / 10 and '1' + col % 10: the last one of columns 9, 19, ... is ':',
\* which no display takes for ten; the text goes on where the last one ended.
VT100(row, col) == IF col % 10 = 9 THEN <<>> ELSE <<Move(1, RowCol(row + 1, col + 1))>>
WincorNixdorf == [CHARS |-> 0, CHAR0 |-> 0]
WincorNixdorf_start == IF <<Rows, Cols>> \in {<<2, 20>>, <<4, 20>>} THEN <<Clear(1)>> ELSE Refused
WincorNixdorf_write(row, col, chars) == VT100(row, col) \o <<Put(1, chars)>>

\* A window with a border, that clips.
Curses == [CHARS |-> 0, CHAR0 |-> 0]
Curses_start == IF AnySize THEN <<Clear(1)>> ELSE Refused
Curses_write(row, col, chars) ==
    IF col < Cols THEN <<MoveAndPut(1, RowCol(row + 1, col + 1), SubSeq(chars, 1, Min({Len(chars), Cols - col})))>>
    ELSE <<>>

\* The vt100 mode of SimpleLCD; other models of it are sent lines.
SimpleLCD == [CHARS |-> 0, CHAR0 |-> 0]
SimpleLCD_start == IF AnySize THEN <<Clear(1)>> ELSE Refused
SimpleLCD_vt100_write(row, col, chars) == VT100(row, col) \o <<Put(1, chars)>>

-----------------------------------------------------------------------------
(* Displays that have all cells in one line. *)

Position1(row, col) == row * Cols + col

\* drv_SL_commit: a change of the last row needs no more than that row.
SimpleLCD_write(row, lines) ==
    IF row = Rows - 1 THEN <<MoveAndPut(1, Position1(row, 0), lines[Rows])>>
    ELSE <<MoveAndPut(1, 0, FlattenSeq(lines))>>

\* Modules count down from the first one; each char is sent with an address, and all twice.
EFN == [CHARS |-> 0, CHAR0 |-> 0]
EFN_clear == LET t == MoveAndPut(1, Rows * Cols, [k \in 1..Rows * Cols |-> Blank]) IN <<t, t>>
EFN_start == IF AnySize THEN EFN_clear ELSE Refused
EFN_write(row, col, chars) ==
    LET rest == Rows * Cols - Position1(row, col)
        t == MoveAndPut(1, rest, SubSeq(chars, 1, Min({Len(chars), rest})))
    IN  <<t, t>>

\* The cursor goes back to where it was: curPos, which nothing else moves from 0.
FutabaVFD == [CHARS |-> 0, CHAR0 |-> 0]
FutabaVFD_start == IF AnySize THEN <<Clear(1)>> ELSE Refused
FutabaVFD_write(row, col, chars) ==
    <<Move(1, Position1(row, col))>> \o PutEach(1, chars) \o <<Move(1, 0)>>

LCDLinux == [CHARS |-> 8, CHAR0 |-> 0]
LCDLinux_start == IF AnySize THEN <<Clear(1)>> ELSE Refused
LCDLinux_write(row, col, chars) == <<Move(1, Position1(row, col)), Put(1, chars)>>
LCDLinux_defchar(ascii, matrix) == <<MoveAndPut(1, CGRAM + 8 * ascii, matrix)>>

\* Lines of 22, four of them.
Noritake == [CHARS |-> 0, CHAR0 |-> 0]
Noritake_start == IF <<Rows, Cols>> = <<4, 21>> THEN <<Clear(1)>> ELSE Refused
Noritake_write(row, col, chars) ==
    LET start_addr == 22 * row + col
    IN  IF start_addr > 87 \/ Len(chars) > 87 THEN <<>> ELSE <<MoveAndPut(1, start_addr, chars)>>

\* The cursor is reset, and all is sent in packets of seven.
ShuttleVFD == [CHARS |-> 0, CHAR0 |-> 0]
ShuttleVFD_start == IF <<Rows, Cols>> = <<1, 20>> THEN <<Clear(1)>> ELSE Refused
ShuttleVFD_write(lines) ==
    <<Move(1, 0)>> \o [i \in 1..3 |-> Put(1, SubSeq(lines[1], 7 * i - 6, Min({7 * i, Cols})))]

-----------------------------------------------------------------------------
(* The displays: which address comes next, what the glass shows, and where the *)
(* pictures of chars are.                                                      *)

M50530s == {"M50530", "M50530 5x11"}

NextAddress(a) ==
    CASE panel.driver \in M50530s -> (a + 1) % 256
      [] panel.driver = "EFN" -> a - 1
      [] panel.driver \in NotHD44780 \ {"EFN"} -> a + 1
      [] OTHER -> NextHD44780(a)

Glass(row, col) ==
    CASE panel.driver \in M50530s ->
            LET line == M50530_DDRAM \div 4
            IN  <<1, (row % 4) * line + (row \div 4) * (line \div 2) + col>>
      [] panel.driver = "EFN" -> <<1, Rows * Cols - Position1(row, col)>>
      [] panel.driver = "Noritake" -> <<1, 22 * row + col>>
      [] panel.driver \in OneLine \ {"EFN", "Noritake"} -> <<1, Position1(row, col)>>
      [] panel.driver \in CountsFrom0 -> <<1, RowCol(row, col)>>
      [] panel.driver \in CountsFrom1 -> <<1, RowCol(row + 1, col + 1)>>
      [] OTHER -> GlassHD44780(row, col)

CharsOf ==
    CASE panel.driver = "ASTUSB" -> ASTUSB [] panel.driver = "BWCT" -> BWCT
      [] panel.driver = "LCDTerm" -> LCDTerm [] panel.driver = "IRLCD" -> IRLCD
      [] panel.driver = "LCD2USB" -> LCD2USB [] panel.driver = "USBLCD" -> USBLCD
      [] panel.driver = "Trefon" -> Trefon [] panel.driver = "FW8888" -> FW8888
      [] panel.driver = "MilfordInstruments" -> MilfordInstruments
      [] panel.driver = "Newhaven" -> Newhaven [] panel.driver = "Pertelian" -> Pertelian
      [] panel.driver = "RouterBoard" -> RouterBoard [] panel.driver = "ULA200" -> ULA200
      [] panel.driver \in M50530s -> M50530
      [] panel.driver = "BeckmannEgle MT" -> BeckmannEgle_MT
      [] panel.driver = "BeckmannEgle CT" -> BeckmannEgle_CT
      [] panel.driver \in {"Crystalfontz 1", "Crystalfontz 2", "Crystalfontz 3"} -> Crystalfontz
      [] panel.driver = "Cwlinux" -> Cwlinux [] panel.driver = "LW_ABP" -> LW_ABP
      [] panel.driver \in {"MatrixOrbital", "MatrixOrbital full"} -> MatrixOrbital
      [] panel.driver = "PHAnderson" -> PHAnderson [] panel.driver = "picoLCD" -> picoLCD
      [] panel.driver = "Sample" -> Sample [] panel.driver = "WincorNixdorf" -> WincorNixdorf
      [] panel.driver = "Curses" -> Curses
      [] panel.driver \in {"SimpleLCD", "SimpleLCD vt100"} -> SimpleLCD
      [] panel.driver = "EFN" -> EFN [] panel.driver = "FutabaVFD" -> FutabaVFD
      [] panel.driver = "LCDLinux" -> LCDLinux [] panel.driver = "Noritake" -> Noritake
      [] panel.driver = "ShuttleVFD" -> ShuttleVFD
      [] OTHER -> HD44780
CHARS == CharsOf.CHARS
CHAR0 == CharsOf.CHAR0

\* HD44780s take chars modulo 8; some displays count their own chars from the first one.
Picture(ascii) ==
    CASE panel.driver \in M50530s -> M50530_DDRAM + (IF FONT5X11 THEN 16 ELSE 8) * (ascii - CHAR0)
      [] panel.driver \in {"BeckmannEgle CT", "Crystalfontz 1"} -> CGRAM + 8 * (ascii - CHAR0)
      [] panel.driver \in NotHD44780 \ {"BeckmannEgle MT", "BeckmannEgle CT", "Crystalfontz 1"} -> CGRAM + 8 * ascii
      [] OTHER -> CharAddress(ascii)
PictureRows == CASE panel.driver = "M50530" -> 7 [] panel.driver = "M50530 5x11" -> 11 [] OTHER -> 8

-----------------------------------------------------------------------------
(* Which functions a driver has registered. *)

StartOf ==
    CASE panel.driver = "ASTUSB" -> ASTUSB_start [] panel.driver = "BWCT" -> BWCT_start
      [] panel.driver = "LCDTerm" -> LCDTerm_start [] panel.driver = "IRLCD" -> IRLCD_start
      [] panel.driver = "LCD2USB" -> LCD2USB_start [] panel.driver = "USBLCD" -> USBLCD_start
      [] panel.driver = "Trefon" -> Trefon_start [] panel.driver = "FW8888" -> FW8888_start
      [] panel.driver = "MilfordInstruments" -> MilfordInstruments_start
      [] panel.driver = "Newhaven" -> Newhaven_start [] panel.driver = "Pertelian" -> Pertelian_start
      [] panel.driver = "RouterBoard" -> RouterBoard_start [] panel.driver = "ULA200" -> ULA200_start
      [] panel.driver \in M50530s -> M50530_start
      [] panel.driver = "BeckmannEgle MT" -> BeckmannEgle_MT_start
      [] panel.driver = "BeckmannEgle CT" -> BeckmannEgle_CT_start
      [] panel.driver \in {"Crystalfontz 1", "Crystalfontz 2", "Crystalfontz 3"} -> Crystalfontz_start
      [] panel.driver = "Cwlinux" -> Cwlinux_start [] panel.driver = "LW_ABP" -> LW_ABP_start
      [] panel.driver \in {"MatrixOrbital", "MatrixOrbital full"} -> MatrixOrbital_start
      [] panel.driver = "PHAnderson" -> PHAnderson_start [] panel.driver = "picoLCD" -> picoLCD_start
      [] panel.driver = "Sample" -> Sample_start [] panel.driver = "WincorNixdorf" -> WincorNixdorf_start
      [] panel.driver = "Curses" -> Curses_start
      [] panel.driver \in {"SimpleLCD", "SimpleLCD vt100"} -> SimpleLCD_start
      [] panel.driver = "EFN" -> EFN_start [] panel.driver = "FutabaVFD" -> FutabaVFD_start
      [] panel.driver = "LCDLinux" -> LCDLinux_start [] panel.driver = "Noritake" -> Noritake_start
      [] panel.driver = "ShuttleVFD" -> ShuttleVFD_start
      [] OTHER -> HD44780_start

\* drv_generic_text_real_write; lines is what a driver with a buffer finds there.
WriteOf(row, col, chars, lines) ==
    CASE panel.driver = "ASTUSB" -> ASTUSB_write(row, col, chars)
      [] panel.driver = "BWCT" -> BWCT_write(row, col, chars)
      [] panel.driver = "LCDTerm" -> LCDTerm_write(row, col, chars)
      [] panel.driver = "IRLCD" -> IRLCD_write(row, col, chars)
      [] panel.driver = "LCD2USB" -> LCD2USB_write(row, col, chars)
      [] panel.driver = "USBLCD" -> USBLCD_write(row, col, chars)
      [] panel.driver = "Trefon" -> Trefon_write(row, col, chars)
      [] panel.driver = "FW8888" -> FW8888_write(row, col, chars)
      [] panel.driver = "MilfordInstruments" -> MilfordInstruments_write(row, col, chars)
      [] panel.driver = "Newhaven" -> Newhaven_write(row, col, chars)
      [] panel.driver = "Pertelian" -> Pertelian_write(row, col, chars)
      [] panel.driver = "RouterBoard" -> RouterBoard_write(row, col, chars)
      [] panel.driver = "ULA200" -> ULA200_write(row, col, chars)
      [] panel.driver \in M50530s -> M50530_write(row, col, chars)
      [] panel.driver = "BeckmannEgle MT" -> BeckmannEgle_MT_write(row, col, chars)
      [] panel.driver = "BeckmannEgle CT" -> BeckmannEgle_CT_write(row, col, chars)
      [] panel.driver = "Crystalfontz 1" -> Crystalfontz_write1(row, col, chars)
      [] panel.driver = "Crystalfontz 2" -> Crystalfontz_write2(row, col, lines[row + 1])
      [] panel.driver = "Crystalfontz 3" -> Crystalfontz_write3(row, col, chars)
      [] panel.driver = "Cwlinux" -> Cwlinux_write(row, col, chars)
      [] panel.driver = "LW_ABP" -> LW_ABP_write(row, col, chars)
      [] panel.driver = "MatrixOrbital" -> MatrixOrbital_write(row, col, chars)
      [] panel.driver = "MatrixOrbital full" -> MatrixOrbital_full_write(row, col, lines[row + 1])
      [] panel.driver = "PHAnderson" -> PHAnderson_write(row, col, chars)
      [] panel.driver = "picoLCD" -> picoLCD_write(row, col, chars)
      [] panel.driver = "Sample" -> Sample_write(row, col, chars)
      [] panel.driver = "WincorNixdorf" -> WincorNixdorf_write(row, col, chars)
      [] panel.driver = "Curses" -> Curses_write(row, col, chars)
      [] panel.driver = "SimpleLCD vt100" -> SimpleLCD_vt100_write(row, col, chars)
      [] panel.driver = "SimpleLCD" -> SimpleLCD_write(row, lines)
      [] panel.driver = "EFN" -> EFN_write(row, col, chars)
      [] panel.driver = "FutabaVFD" -> FutabaVFD_write(row, col, chars)
      [] panel.driver = "LCDLinux" -> LCDLinux_write(row, col, chars)
      [] panel.driver = "Noritake" -> Noritake_write(row, col, chars)
      [] panel.driver = "ShuttleVFD" -> ShuttleVFD_write(lines)
      [] OTHER -> HD44780_write(row, col, chars)

\* drv_generic_text_real_defchar.
DefcharOf(ascii, matrix) ==
    CASE panel.driver = "ASTUSB" -> ASTUSB_defchar(ascii, matrix)
      [] panel.driver = "BWCT" -> BWCT_defchar(ascii, matrix)
      [] panel.driver = "LCDTerm" -> LCDTerm_defchar(ascii, matrix)
      [] panel.driver = "IRLCD" -> IRLCD_defchar(ascii, matrix)
      [] panel.driver = "LCD2USB" -> LCD2USB_defchar(ascii, matrix)
      [] panel.driver = "USBLCD" -> USBLCD_defchar(ascii, matrix)
      [] panel.driver = "Trefon" -> Trefon_defchar(ascii, matrix)
      [] panel.driver = "MilfordInstruments" -> MilfordInstruments_defchar(ascii, matrix)
      [] panel.driver = "Newhaven" -> Newhaven_defchar(ascii, matrix)
      [] panel.driver = "Pertelian" -> Pertelian_defchar(ascii, matrix)
      [] panel.driver = "RouterBoard" -> RouterBoard_defchar(ascii, matrix)
      [] panel.driver = "ULA200" -> ULA200_defchar(ascii, matrix)
      [] panel.driver \in M50530s -> M50530_defchar(ascii, matrix)
      [] panel.driver = "BeckmannEgle MT" -> BeckmannEgle_MT_defchar(ascii, matrix)
      [] panel.driver = "BeckmannEgle CT" -> BeckmannEgle_CT_defchar(ascii, matrix)
      [] panel.driver \in {"Crystalfontz 1", "Crystalfontz 2", "Crystalfontz 3"} -> Crystalfontz_defchar(ascii, matrix)
      [] panel.driver = "Cwlinux" -> Cwlinux_defchar(ascii, matrix)
      [] panel.driver \in {"MatrixOrbital", "MatrixOrbital full"} -> MatrixOrbital_defchar(ascii, matrix)
      [] panel.driver = "PHAnderson" -> PHAnderson_defchar(ascii, matrix)
      [] panel.driver = "picoLCD" -> picoLCD_defchar(ascii, matrix)
      [] panel.driver = "Sample" -> Sample_defchar(ascii, matrix)
      [] panel.driver = "LCDLinux" -> LCDLinux_defchar(ascii, matrix)
      [] OTHER -> HD44780_defchar(ascii, matrix)

-----------------------------------------------------------------------------
(* What the common part of text drivers asks for, with requests and answers   *)
(* that get lost.                                                              *)

\* Variant for mutation: a display is opened again, and nothing is sent again.
SendsNothingAgain(t) == FALSE

\* What a driver sends again when the transfer failed, and its display then gets twice where
\* only the answer was lost.
SendsAgain(t) == panel.driver \in {"LCD2USB", "IRLCD"} \/ (panel.driver = "ASTUSB" /\ ASTUSB_repeats(t))

\* A request or its answer is lost.  ULA200 asks for an answer after each command, and sends the
\* command again if that says it was not understood, or cannot be read; it waits without end
\* for an answer that does not come.
NoFault == [kind |-> "none", at |-> 0, text |-> FALSE]
Faults(ts) ==
    {NoFault} \cup
    {f \in [kind : {"request", "answer", "refused", "unanswered"}, at : FaultsAt \cap DOMAIN ts, text : BOOLEAN] :
        /\ panel.driver \in Repairing
        /\ f.text = (ts[f.at].chars # <<>>)
        /\ f.kind = "answer" => SendsAgain(ts[f.at]) \/ panel.driver = "ULA200"
        /\ f.kind \in {"refused", "unanswered"} => panel.driver = "ULA200"}

\* What the display gets.  ULA200 drops the rest of a run when a command could not be written.
Delivered(ts, f) ==
    CASE f.kind = "request" /\ panel.driver = "ULA200" -> SubSeq(ts, 1, f.at - 1)
      [] f.kind = "request" /\ panel.driver # "ULA200" /\ ~SendsAgain(ts[f.at]) -> RemoveAt(ts, f.at)
      [] f.kind = "answer" -> InsertAt(ts, f.at, ts[f.at])
      [] f.kind = "unanswered" -> SubSeq(ts, 1, f.at - 1)
      [] OTHER -> ts

Obeyed(store, ts) == FoldLeft(LAMBDA st, t : Obey(st, t, NextAddress), store, ts)

\* drv_generic_text_init, after the driver has started.
TextDriverInit ==
    /\ panel \in {Display(p) : p \in Panels}
    /\ StartOf # Refused
    /\ queue = IF panel.driver = "LCD2USB" THEN StartOf ELSE <<>>
    /\ memory = Obeyed([c \in Controllers |-> [at |-> 0, held |-> <<>>, rest |-> Garbage]],
                       IF panel.driver = "LCD2USB" THEN <<>> ELSE StartOf)
    /\ cells = IF panel.driver \in Buffered THEN [r \in 1..Rows |-> [k \in 1..Cols |-> Blank]] ELSE <<>>
    /\ wanted = <<>>
    /\ defined = <<0, 0>>
    /\ fault = NoFault
    /\ runs = 0

\* drv_generic_text_blit: a run of chars inside the display that have changed.
WriteRun(row, col, end) ==
    LET chars == [i \in 1..end - col + 1 |-> <<runs + 1, col + i - 1>>]
        lines == IF panel.driver \in Buffered
                 THEN [cells EXCEPT ![row + 1] = [k \in 1..Cols |-> IF k - 1 \in col..end THEN chars[k - col] ELSE @[k]]]
                 ELSE cells
        ts == queue \o WriteOf(row, col, chars, lines)
    IN  /\ runs < MaxRuns /\ runs' = runs + 1 /\ fault.kind # "unanswered"
        /\ \E f \in IF runs = 0 THEN Faults(ts) ELSE {NoFault} :
              /\ memory' = Obeyed(memory, Delivered(ts, f))
              /\ fault' = IF runs = 0 THEN f ELSE fault
        /\ cells' = lines /\ queue' = <<>>
        /\ wanted' = Append(wanted, [run |-> runs + 1, row |-> row, cols |-> col..end])
        /\ UNCHANGED <<panel, defined>>

\* drv_generic_text_icon_draw, drv_generic_text_bar_define_chars: the first char or the last.
DefineChar(i) ==
    /\ runs < MaxRuns /\ runs' = runs + 1 /\ fault.kind # "unanswered"
    /\ CHARS > 0
    /\ memory' = Obeyed(memory, queue \o DefcharOf(CHAR0 + (IF i = 1 THEN 0 ELSE CHARS - 1),
                                                   [k \in 1..PictureRows |-> <<runs + 1, k>>]))
    /\ queue' = <<>>
    /\ defined' = [defined EXCEPT ![i] = runs + 1]
    /\ UNCHANGED <<panel, cells, wanted, fault>>

Ends == (Edges \cap 0..Cols - 1) \cup {Cols - 1}

TextDriverNext ==
    \/ \E row \in 0..Rows - 1, col, end \in Ends : col <= end /\ WriteRun(row, col, end)
    \/ \E i \in 1..2 : DefineChar(i)

TextDriverSpec == TextDriverInit /\ [][TextDriverNext]_textDriverVars

-----------------------------------------------------------------------------
(* What the display shows. *)

\* What the text driver wrote last to a cell.
Wanted(row, col) ==
    LET last == SelectLastInSeq(wanted, LAMBDA w : w.row = row /\ col \in w.cols)
    IN  IF last = 0 THEN Blank ELSE <<wanted[last].run, col>>

\* What an unwritten cell may hold: the clear still waits in the buffer of LCD2USB, or these
\* are the rows that MatrixOrbital_clear leaves out.
NotCleared == panel.driver = "MatrixOrbital full" \/ queue # <<>>
\* ULA200 drops the first run, if that one met the fault.
Dropped(row, col) == panel.driver = "ULA200" /\ fault.kind = "request" /\ Wanted(row, col) = <<1, col>>
CellShown(row, col) ==
    LET at == Glass(row, col)
        cell == Held(at[1], at[2])
    IN  \/ cell = Wanted(row, col)
        \/ NotCleared /\ <<cell, Wanted(row, col)>> = <<Garbage, Blank>>
        \/ Dropped(row, col) /\ cell = Blank
\* Displays side by side may be of different widths.
TextShown ==
    \A row \in 0..Rows - 1, col \in 0..Cols - 1 :
        col < panel.CCOLS[Glass(row, col)[1]] => CellShown(row, col)

CharsShown ==
    \A i \in {k \in 1..2 : defined[k] # 0}, c \in Controllers, r \in 1..PictureRows :
        Held(c, Picture(CHAR0 + (IF i = 1 THEN 0 ELSE CHARS - 1)) + r - 1) = <<defined[i], r>>

\* Displays that a driver does not serve: rows behind 16 columns instead of 20, a single
\* row of two halves, a second controller that is never selected, rows of an HD44780's third
\* and fourth controllers (from which drv_HD_goto's pos and row are both counted), chars of
\* eleven rows in eight words, and columns that two digits do not tell.
Misplaced ==
    \/ panel.driver = "ASTUSB" /\ Rows > 2 /\ Cols > 20
    \/ panel.driver \in {"IRLCD", "Pertelian", "Newhaven"} /\ <<Rows, Cols>> = <<4, 16>>
    \/ panel.driver = "HD44780" /\ \E k \in DOMAIN wanted : GlassHD44780(wanted[k].row, 0)[1] > 2
    \/ panel.driver = "M50530 5x11"
    \/ panel.driver = "RouterBoard" /\ <<Rows, Cols>> = <<1, 16>>
    \/ panel.driver \in {"SimpleLCD vt100", "WincorNixdorf"}
        /\ \E k \in DOMAIN wanted : Min(wanted[k].cols) % 10 = 9

\* Wherever a driver puts the runs of chars it is given, and in as many transfers as it
\* likes, every cell of the glass shows what was written to it last, and is blank if nothing
\* was (but see NotCleared), nothing runs over into another row, and chars have the pictures
\* that were defined last.
CellsShown == fault = NoFault /\ ~Misplaced => TextShown /\ CharsShown

\* A transfer that failed once leaves no trace: it is sent again, or everything is sent
\* twice, or again with the next run.  An address may be sent twice where only the answer
\* was lost; the text of such a transfer is repeated on the display, and shifts the rest.  Of
\* ULA200 this is so where the display did not understand a command: a run of which a command
\* cannot be written is dropped, and no other cell suffers from that; the driver stops for
\* ever where the answer does not come (drv_ula200.c:230).
LossRepaired ==
    \/ fault = NoFault
    \/ Misplaced
    \/ panel.driver = "ShuttleVFD" /\ Len(wanted) < 2
    \/ panel.driver = "ASTUSB" /\ ~fault.text
    \/ fault.kind = "answer" /\ fault.text
    \/ fault.kind = "unanswered"
    \/ TextShown /\ CharsShown
=============================================================================
