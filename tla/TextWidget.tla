----------------------------- MODULE TextWidget -----------------------------
(***************************************************************************)
(* A text widget (widget_text.c): a timer, or a named event, evaluates its *)
(* properties, and another timer scrolls a string that is longer than the  *)
(* place between prefix and postfix, round and round (marquee) or to and   *)
(* fro (ping-pong).                                                        *)
(*                                                                         *)
(* Strings are sequences of chars; a number with its precision is one of   *)
(* the strings that fit, or stars.                                         *)
(***************************************************************************)
EXTENDS Integers, Sequences, SequencesExt, FiniteSetsExt

CONSTANTS
    Aligns,      \* "left", "center", "right", "automatic", "marquee", and "pingpong" with
                 \* the alignment of a string that fits
    Widths, Affixes,   \* prefixes and postfixes
    Strings,     \* what the expression may yield
    Styles,
    MaxUpdates   \* bound on the updates in which something has changed

VARIABLES
    align, width,     \* configuration
    prefix, postfix, style, string,   \* results of the properties; string is NoString at first
    scroll, direction, delay,         \* the scroller
    drawnLine,      \* the line that was drawn last
    updates      \* how often something has changed

widgetVars == <<align, width, prefix, postfix, style, string, scroll, direction, delay, drawnLine, updates>>

NoString == <<"none">>
PINGPONGWAIT == 2
PingPongs == {"pingpong left", "pingpong center", "pingpong right"}
Scrolling == align \in PingPongs \cup {"automatic", "marquee"}

\* widget_text_init
TextWidgetInit ==
    /\ align \in Aligns /\ width \in Widths
    /\ prefix = <<>> /\ postfix = <<>> /\ style = CHOOSE s \in Styles : TRUE
    /\ string = NoString
    /\ scroll = 0 /\ direction = 0 /\ delay = 0
    /\ drawnLine = <<>> /\ updates = 0

\* The place for a string between two affixes.
Room(before, behind) == Max({0, width - Len(before) - Len(behind)})

\* The blanks before a string that is not scrolled, negative if chars are skipped.
Pad(text, room) ==
    CASE align \in {"center", "pingpong center"} -> Max({0, (room - Len(text)) \div 2})
      [] align \in {"right", "pingpong right"} -> Max({0, room - Len(text)})
      [] OTHER -> 0

\* The line: prefix, blanks or what is left of the string, blanks, postfix; every part is
\* cut where the line is full.
Cut(text, n) == SubSeq(text, 1, Min({Len(text), Max({0, n})}))
Padding(n) == [i \in 1..n |-> " "]
Line(before, text, behind, pad) ==
    LET start == Cut(before, width)
        body == Cut(Padding(Max({0, pad})) \o SubSeq(text, 1 + Max({0, -pad}), Len(text)), width - Len(start))
        part == start \o body
        filled == part \o Padding(Max({0, width - Len(behind) - Len(part)}))
    IN  filled \o Cut(behind, width - Len(filled))

Draw(before, text, behind, pad) == drawnLine' = Line(before, text, behind, pad)

\* One step of the scroller from place at with direction dir, after wait turns at the end.
MarqueeFrom(at, before, text, behind) ==
    LET room == Room(before, behind)
    IN  /\ scroll' = IF at + 1 >= room + Len(text) THEN 0 ELSE at + 1
        /\ Draw(before, text, behind, room - at)
        /\ UNCHANGED <<direction, delay>>

\* Variant for mutation: a turn neither begins the delay anew nor steps back.
PingPongStuck(at, dir, wait, before, text, behind) ==
    LET over == Len(text) - Room(before, behind)
        next == IF dir = 1 THEN at + 1 ELSE at - 1
        atEnd == next > over \/ next < 0
    IN  /\ direction' = IF atEnd /\ wait < 1 THEN 1 - dir ELSE dir
        /\ scroll' = next
        /\ delay' = IF atEnd THEN Max({0, wait - 1}) ELSE wait
        /\ Draw(before, text, behind, IF next > over THEN -over ELSE IF next < 0 THEN 0 ELSE -next)

PingPongFrom(at, dir, wait, before, text, behind) ==
    LET over == Len(text) - Room(before, behind)
        next == IF dir = 1 THEN at + 1 ELSE at - 1
        atEnd == next > over \/ next < 0
        turns == atEnd /\ wait < 1
        back == IF next > over THEN -PINGPONGWAIT ELSE PINGPONGWAIT
    IN  /\ direction' = IF turns THEN (IF next > over THEN 0 ELSE 1) ELSE dir
        /\ scroll' = IF turns THEN next + back ELSE next
        /\ delay' = IF turns THEN PINGPONGWAIT ELSE IF atEnd THEN wait - 1 ELSE wait
        /\ Draw(before, text, behind, IF next > over THEN -over ELSE IF next < 0 THEN 0 ELSE -next)

\* widget_text_scroll
ScrollFrom(at, dir, wait, before, text, behind) ==
    LET fits == Len(text) <= Room(before, behind)
    IN  IF align = "marquee" \/ (align = "automatic" /\ ~fits)
        THEN MarqueeFrom(at, before, text, behind)
        ELSE IF align \in PingPongs /\ ~fits
        THEN PingPongFrom(at, dir, wait, before, text, behind)
        ELSE /\ Draw(before, text, behind, Pad(text, Room(before, behind)))
             /\ scroll' = at /\ direction' = dir /\ delay' = wait

\* The scroller's timer; before the first update there is nothing to draw.
Scroll ==
    /\ Scrolling /\ string # NoString
    /\ ScrollFrom(scroll, direction, delay, prefix, string, postfix)
    /\ UNCHANGED <<align, width, prefix, postfix, style, string, updates>>

\* widget_text_update, with property_eval of the properties: if one of them changed, the
\* scroller begins anew and is called, whatever the alignment is.
Update(before, text, behind, look) ==
    /\ prefix' = before /\ postfix' = behind /\ style' = look /\ string' = text
    /\ IF <<before, text, behind, look>> = <<prefix, string, postfix, style>>
       THEN UNCHANGED <<scroll, direction, delay, drawnLine, updates>>
       ELSE /\ updates < MaxUpdates /\ updates' = updates + 1
            /\ ScrollFrom(0, IF align \in PingPongs THEN 0 ELSE direction,
                          IF align \in PingPongs THEN PINGPONGWAIT ELSE delay, before, text, behind)
    /\ UNCHANGED <<align, width>>

TextWidgetNext ==
    \/ Scroll
    \/ \E before, behind \in Affixes, text \in Strings, look \in Styles : Update(before, text, behind, look)

TextWidgetSpec == TextWidgetInit /\ [][TextWidgetNext]_widgetVars /\ WF_widgetVars(Scroll)

-----------------------------------------------------------------------------
(* Properties. *)

\* When no property changes any more (MaxUpdates), a scrolled string is shown from its first
\* to its last char, again and again, if there is any room for it: also when the scroller
\* turns round at either end, and however often the expressions are evaluated meanwhile.
Visible == Scrolling /\ string # NoString /\ Room(prefix, postfix) > 0
EveryPartShown ==
    /\ []<>(Visible => Head(string) \in ToSet(drawnLine))
    /\ []<>(Visible => Last(string) \in ToSet(drawnLine))
=============================================================================
