------------------------------ MODULE HD44780 ------------------------------
(***************************************************************************)
(* Text displays and what is sent to them.  A controller, most often an    *)
(* HD44780, knows addresses, goes on to the next one by itself after a     *)
(* byte, and keeps chars that can be defined; the glass shows some of its  *)
(* addresses in rows and columns.  The driver of displays with up to four  *)
(* HD44780s, each of a size of its own (drv_HD44780.c), finds controller   *)
(* and address of a position.                                              *)
(*                                                                         *)
(* What an address holds is a pair: the run that was written, and which    *)
(* column (or, of a char's picture, which row) of it.                      *)
(***************************************************************************)
EXTENDS Integers, Sequences, SequencesExt, FiniteSetsExt, Functions, TLC

VARIABLES
    panel,      \* the driver at work and its display: CCOLS and CROWS of each controller, hd66712,
                \* and the DROWS and DCOLS of them all
    memory      \* of each controller: its address counter and what its addresses hold

Controllers == DOMAIN panel.CCOLS        \* numControllers and allControllers
Sum(rows) == FoldSeq(+, 0, rows)
Display(p) == [driver |-> p.driver, CCOLS |-> p.CCOLS, CROWS |-> p.CROWS, hd66712 |-> p.hd66712,
               DROWS |-> Sum(p.CROWS), DCOLS |-> Max(ToSet(p.CCOLS))]
Rows == panel.DROWS
Cols == panel.DCOLS

-----------------------------------------------------------------------------
(* The controllers have two lines of 40 addresses, from 0 and from 64, or four *)
(* of 32.  A glass of more than two rows continues both lines behind the first *)
(* rows; a single row of 16 shows the first halves of two lines.               *)

Blank == <<0, 0>>
Garbage == <<-1, 0>>      \* what is there before the driver starts
Here == -1                \* the address counter stays
CGRAM == 10000            \* the pictures of chars have addresses of their own

FourLines == panel.hd66712 /\ Rows > 2
NextHD44780(a) ==
    CASE a >= CGRAM -> CGRAM + ((a + 1 - CGRAM) % 64)
      [] a < CGRAM /\ FourLines -> (a + 1) % 128
      [] a = 39 /\ ~FourLines -> 64
      [] a = 103 /\ ~FourLines -> 0
      [] OTHER -> (a + 1) % 128

\* The controller and the address that a cell of the display shows.
GlassHD44780(row, col) ==
    LET above == [k \in Controllers |-> Sum(SubSeq(panel.CROWS, 1, k - 1))]
        c == Max({k \in Controllers : above[k] <= row})
        r == row - above[c]
    IN  <<c, IF FourLines THEN r * 32 + col
             ELSE IF panel.CCOLS[c] = 16 /\ panel.CROWS[c] = 1 THEN (col \div 8) * 64 + (col % 8)
             ELSE (r % 2) * 64 + (r \div 2) * panel.CCOLS[c] + col>>

\* A command 0x40 | 8 * ascii, which the controller takes modulo 64, as it takes chars modulo 8.
CharAddress(ascii) == CGRAM + ((8 * ascii) % 64)

-----------------------------------------------------------------------------
(* Transfers: the driver clears, sets the address, or sends bytes. *)

Clear(c) == [to |-> c, clear |-> TRUE, at |-> Here, chars |-> <<>>]
Move(c, a) == [to |-> c, clear |-> FALSE, at |-> a, chars |-> <<>>]
Put(c, chars) == [to |-> c, clear |-> FALSE, at |-> Here, chars |-> chars]
MoveAndPut(c, a, chars) == [to |-> c, clear |-> FALSE, at |-> a, chars |-> chars]
PutEach(c, chars) == [i \in DOMAIN chars |-> Put(c, <<chars[i]>>)]

\* A transfer to a controller whose addresses follow each other like Next.
Obey(store, t, Next(_)) ==
    LET take(c, char) == [c EXCEPT !.at = Next(@), !.held = (c.at :> char) @@ @]
        cleared(c) == [at |-> 0, held |-> Restrict(c.held, {a \in DOMAIN c.held : a >= CGRAM}), rest |-> Blank]
    IN  [store EXCEPT ![t.to] =
            IF t.clear THEN cleared(@)
            ELSE FoldLeft(take, [@ EXCEPT !.at = IF t.at = Here THEN @ ELSE t.at], t.chars)]

\* What an address of a controller holds.
Held(c, a) == IF a \in DOMAIN memory[c].held THEN memory[c].held[a] ELSE memory[c].rest

-----------------------------------------------------------------------------
(* The driver of HD44780s. *)

\* Chars that can be defined, and the code of the first.
HD44780 == [CHARS |-> 8, CHAR0 |-> 0]

\* drv_HD_start clears all controllers; it takes one to four of them.
HD44780_start == [c \in Controllers |-> Clear(c)]

\* drv_HD_goto finds the controller: rows of a controller above are both added to pos and
\* taken from row.
RowOn(row, c) == row - Sum(SubSeq(panel.CROWS, 1, c - 1))
ControllerOf(row) == Min({c \in Controllers : RowOn(row, c) < Sum(SubSeq(panel.CROWS, 1, c))})

\* Variant for mutation: 16x4 controllers have the rows of 20x4 ones.
Position20(c, row, col) ==
    IF panel.hd66712 THEN row * 32 + col ELSE (row % 2) * 64 + (row \div 2) * 20 + col

\* The address ...
Position(c, row, col) ==
    IF panel.hd66712 THEN row * 32 + col
    ELSE (row % 2) * 64 + (row \div 2) * (IF panel.CCOLS[c] = 16 /\ panel.CROWS[c] = 4 THEN 16 ELSE 20) + col

\* ... and the columns left, or -1 if the display is wider than the controller.
Goto(row, col) ==
    LET c == ControllerOf(row)
        halved == panel.CCOLS[c] = 16 /\ panel.CROWS[c] = 1 /\ col > 7
        r == RowOn(row, c) + (IF halved THEN 1 ELSE 0)
        k == IF halved THEN col - 8 ELSE col
    IN  [controller |-> c, pos |-> Position(c, r, k),
         space |-> IF col >= panel.CCOLS[c] THEN -1 ELSE panel.CCOLS[c] - k]

HD44780_write(row, col, chars) ==
    LET at == Goto(row, col)
    IN  IF at.space > 0
        THEN <<Move(at.controller, at.pos), Put(at.controller, SubSeq(chars, 1, Min({Len(chars), at.space})))>>
        ELSE <<>>

HD44780_defchar(ascii, matrix) ==
    FlattenSeq([c \in Controllers |-> <<Move(c, CharAddress(ascii)), Put(c, matrix)>>])
=============================================================================
