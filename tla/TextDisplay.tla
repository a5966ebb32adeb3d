---------------------------- MODULE TextDisplay ----------------------------
(***************************************************************************)
(* The frame buffers of a text display (drv_generic_text.c).  Widgets draw *)
(* into the layout buffer, which grows with them; blit sends what differs  *)
(* from the display buffer to the display.  Icons and bars share a few     *)
(* characters whose looks can be defined: a bar's cells need segments, and *)
(* where there are more segments than characters some take each other's.   *)
(*                                                                         *)
(* The display itself is part of the model: what stands in its cells, and  *)
(* how its characters look.  Displays that want INVALIDATE keep the look   *)
(* that a character had when it was sent, others change it in place.       *)
(***************************************************************************)
EXTENDS Integers, Sequences, FiniteSets, FiniteSetsExt

CONSTANTS
    DROWS, DCOLS,    \* size of the display
    TextSetups       \* drivers and layouts: CHARS, CHAR0, ICONS, GOTO_COST, INVALIDATE, XRES,
                     \* YRES, Single_Segments and the fixed segments; texts (row, col, what
                     \* they may show), icons (row, col, the bitmaps that they run through)
                     \* and bars (row, col, dir, style, len, the values
                     \* from 1 to len * res that they run through)

VARIABLES
    drv,        \* the driver and its layout
    LROWS, LCOLS, \* size of the layout
    LayoutFB,   \* what widgets drew, a char for every cell of LROWS x LCOLS
    BarFB,      \* what bars drew: val1, val2, dir and style for every cell of the layout
    DisplayFB,  \* what blit believes the display shows, for every address
    device,     \* what the display shows: a char and the look it was sent with
    glyphs,     \* the display's looks of the user-defined chars
    Segment,    \* segments, the fixed ones first: val1, val2, dir, style, used, ascii
    icon,       \* of each icon: its ascii, the bitmap that was defined last
    drawn,      \* history: what each widget drew last
    packing,    \* history: how the segments of the last bar were packed: "exactly" as many
                \* as there were, "well", with a segment that replaced itself on the way
                \* ("by itself"), or "not" (which is logged)
    overrun     \* history: DisplayFB was written beyond its end

textVars == <<drv, LROWS, LCOLS, LayoutFB, BarFB, DisplayFB, device, glyphs, Segment, icon, drawn, packing, overrun>>

Blank == 32
Not(char) == 255 - char                      \* the complement of a byte
NoBar == [val1 |-> -1, val2 |-> -1, dir |-> {}, style |-> "none"]
AllDirs == {"N", "E", "S", "W"}
Undrawn == <<>>

Cells(rows, cols) == (0..rows - 1) \X (0..cols - 1)
Address(cell) == cell[1] * DCOLS + cell[2]
OnDisplay(cell) == cell[1] < DROWS /\ cell[2] < DCOLS
Before(a, b) == a[1] < b[1] \/ (a[1] = b[1] /\ a[2] < b[2])
\* Where a widget may draw.
Horizontal(dir) == dir \cap {"E", "W"} # {}
AreaOfText(w) == UNION {{<<w.row, w.col + i - 1>> : i \in DOMAIN text} : text \in w.texts}
AreaOfIcon(w) == {<<w.row, w.col>>}
AreaOfBar(w) == {IF Horizontal({w.dir}) THEN <<w.row, w.col + k>> ELSE <<w.row + k, w.col>> : k \in 0..w.len - 1}

\* The chars of a driver that can be defined, those that its widgets write apart from them,
\* and what stands in DisplayFB for a char that has to be sent again.
Definable(setup) == setup.CHAR0..setup.CHAR0 + setup.CHARS - 1
Written(setup) == {Blank} \cup UNION {{text[i] : i \in DOMAIN text} : text \in UNION {w.texts : w \in setup.texts}}
Complements(setup) == IF setup.INVALIDATE THEN {Not(c) : c \in Definable(setup)} ELSE {}

\* Drivers reserve ICONS of their CHARS (cfg_number takes no more), and nobody else may use
\* what a text or an icon draws into: neither its cells nor its chars.
ASSUME DisplayAssumption == DROWS \in Nat \ {0} /\ DCOLS \in Nat \ {0}
ASSUME SetupsAssumption == \A setup \in TextSetups :
    /\ setup.CHARS \in Nat /\ setup.CHAR0 \in Nat /\ setup.ICONS \in 0..setup.CHARS
    /\ setup.XRES \in Nat /\ setup.YRES \in Nat
    /\ setup.fixed \in Seq([val1 : Nat, val2 : Nat, ascii : Nat])
    /\ \A w \in setup.texts \cup setup.icons \cup setup.bars : w.row \in Nat /\ w.col \in Nat
    /\ \A w \in setup.texts : \A text \in w.texts : text \in Seq(Nat)
    /\ \A w \in setup.icons : {"none", "blank"} \cap w.maps = {}
    /\ \A w \in setup.bars : w.len \in Nat /\ w.dir \in AllDirs /\ w.style \in BOOLEAN /\ w.vals \subseteq Nat
    /\ IsFiniteSet(setup.icons)
    /\ \A v \in setup.texts, w \in setup.texts : v # w => AreaOfText(v) \cap AreaOfText(w) = {}
    /\ \A v \in setup.icons, w \in setup.icons : v # w => AreaOfIcon(v) \cap AreaOfIcon(w) = {}
    /\ \A v \in setup.texts, w \in setup.icons : v # w /\ AreaOfText(v) \cap AreaOfIcon(w) = {}
    /\ \A v \in setup.texts, w \in setup.bars : v # w /\ AreaOfText(v) \cap AreaOfBar(w) = {}
    /\ \A v \in setup.icons, w \in setup.bars : v # w /\ AreaOfIcon(v) \cap AreaOfBar(w) = {}
    /\ Written(setup) \cap Definable(setup) = {}
    /\ Complements(setup) \cap (Written(setup) \cup Definable(setup)) = {}

\* How a char looks: by its glyph if that can be defined, else for ever the same.
LookOf(char, looks) == IF char \in DOMAIN looks THEN looks[char] ELSE <<"char", char>>

\* drv_generic_text_bar_add_segment
FixedSegment(f) ==
    [val1 |-> f.val1, val2 |-> f.val2, dir |-> AllDirs,
     style |-> IF f.val1 = 0 /\ f.val2 = 0 THEN "none" ELSE "all", used |-> FALSE, ascii |-> f.ascii]
fSegment == Len(drv.fixed)

\* drv_generic_text_init, icon_init and bar_init
TextInit ==
    /\ drv \in TextSetups
    /\ LROWS = DROWS /\ LCOLS = DCOLS
    /\ LayoutFB = [cell \in Cells(DROWS, DCOLS) |-> Blank]
    /\ BarFB = [cell \in Cells(DROWS, DCOLS) |-> NoBar]
    /\ DisplayFB = [d \in 0..DROWS * DCOLS - 1 |-> Blank]
    /\ device = [d \in 0..DROWS * DCOLS - 1 |-> [char |-> Blank, look |-> <<"char", Blank>>]]
    /\ glyphs = [c \in drv.CHAR0..drv.CHAR0 + drv.CHARS - 1 |-> <<"undefined">>]
    /\ Segment = [i \in DOMAIN drv.fixed |-> FixedSegment(drv.fixed[i])]
    /\ icon = [w \in drv.icons |-> [ascii |-> -1, prvmap |-> "none"]]
    /\ drawn = [w \in drv.texts \cup drv.icons \cup drv.bars |-> Undrawn]
    /\ packing = "exactly" /\ overrun = FALSE

-----------------------------------------------------------------------------
(* The frame buffers. *)

\* drv_generic_text_resizeFB: the buffers hold rows x cols at least.  Nobody initialises
\* the style of new cells of BarFB.
Resize(rows, cols) ==
    /\ LROWS' = Max({rows, LROWS})
    /\ LCOLS' = Max({cols, LCOLS})
Resized(fb, rows, cols, new) ==
    IF rows <= LROWS /\ cols <= LCOLS THEN fb
    ELSE [cell \in Cells(Max({rows, LROWS}), Max({cols, LCOLS})) |-> IF cell \in DOMAIN fb THEN fb[cell] ELSE new]
BarsResized(rows, cols) ==
    IF rows <= LROWS /\ cols <= LCOLS THEN {BarFB}
    ELSE {Resized(BarFB, rows, cols, [NoBar EXCEPT !.style = garbage]) : garbage \in {"none", "first"}}

\* The columns of a row that are sent: those that differ, and what lies between two of
\* them unless a new goto is cheaper.
Sent(differ) ==
    {c \in 0..DCOLS - 1 : \/ c \in differ
                          \/ \E d, e \in differ : d < c /\ c < e /\ e - d <= drv.GOTO_COST + 1}

\* drv_generic_text_blit for the cells of a region.
Blit(layout, display, looks, region) ==
    LET Differ(r) == {c \in 0..DCOLS - 1 : /\ <<r, c>> \in region
                                           /\ display[Address(<<r, c>>)] # layout[<<r, c>>]}
        sent == UNION {{<<r, c>> : c \in Sent(Differ(r))} : r \in 0..DROWS - 1}
        At(d) == <<d \div DCOLS, d % DCOLS>>
    IN  /\ DisplayFB' = [d \in DOMAIN display |-> IF At(d) \in sent THEN layout[At(d)] ELSE display[d]]
        /\ device' = [d \in DOMAIN device |->
                         IF At(d) \in sent
                         THEN [char |-> layout[At(d)], look |-> LookOf(layout[At(d)], looks)]
                         ELSE device[d]]

\* DisplayFB with the cells made wrong where a char has been re-defined, so that blit
\* sends it.  Nobody asks whether a cell is on the display.
Invalidated(layout, cells) ==
    [d \in DOMAIN DisplayFB |->
        LET hits == {cell \in cells : Address(cell) = d}
        IN  IF hits = {} THEN DisplayFB[d] ELSE Not(layout[CHOOSE cell \in hits : \A other \in hits \ {cell} : Before(other, cell)])]
Overruns(cells) == overrun' = (overrun \/ \E cell \in cells : Address(cell) \notin DOMAIN DisplayFB)

-----------------------------------------------------------------------------
(* Texts and icons. *)

\* drv_generic_text_draw
DrawText(w, text) ==
    LET cells == {<<w.row, w.col + i - 1>> : i \in DOMAIN text}
        grown == Resized(LayoutFB, w.row + 1, w.col + Len(text), Blank)
        layout == [cell \in DOMAIN grown |-> IF cell \in cells THEN text[cell[2] - w.col + 1] ELSE grown[cell]]
    IN  /\ Resize(w.row + 1, w.col + Len(text))
        /\ LayoutFB' = layout
        /\ BarFB' \in BarsResized(w.row + 1, w.col + Len(text))
        /\ Blit(layout, DisplayFB, glyphs, cells)
        /\ drawn' = [drawn EXCEPT ![w] = text]
        /\ UNCHANGED <<drv, glyphs, Segment, icon, packing, overrun>>

\* Variant for mutation: a new bitmap is not defined as long as the icon has one.
RedefineOnce(w, map) == icon[w].prvmap = "none"

\* Whether the display has to learn the icon's bitmap.
Redefine(w, map) == icon[w].prvmap # map

\* The last icon was given the lowest of the ICONS chars at the end.
IconsGiven == Cardinality({w \in drv.icons : icon[w].ascii >= 0})
AsciiOf(w) == IF icon[w].ascii # -1 THEN icon[w].ascii
              ELSE IF IconsGiven >= drv.ICONS THEN -2
              ELSE drv.CHAR0 + drv.CHARS - (IconsGiven + 1)

\* drv_generic_text_icon_draw; there may be no char left for the icon.
DrawIcon(w, map, visible) ==
    LET cell == <<w.row, w.col>>
        ascii == AsciiOf(w)
        redefined == visible /\ Redefine(w, map)
        looks == IF redefined THEN [glyphs EXCEPT ![ascii] = <<"icon", map>>] ELSE glyphs
        invalid == IF redefined /\ drv.INVALIDATE THEN {cell} ELSE {}
        grown == Resized(LayoutFB, w.row + 1, w.col + 1, Blank)
        layout == [grown EXCEPT ![cell] = IF visible THEN ascii ELSE Blank]
    IN  /\ Resize(w.row + 1, w.col + 1)
        /\ BarFB' \in BarsResized(w.row + 1, w.col + 1)
        /\ icon' = [icon EXCEPT ![w] = [ascii |-> ascii, prvmap |-> IF redefined /\ ascii >= 0 THEN map ELSE @.prvmap]]
        /\ IF ascii = -2
           THEN /\ LayoutFB' = grown
                /\ UNCHANGED <<DisplayFB, device, glyphs, drawn, overrun>>
           ELSE /\ LayoutFB' = layout
                /\ glyphs' = looks
                /\ Blit(layout, Invalidated(layout, invalid), looks, {cell})
                /\ Overruns(invalid)
                /\ drawn' = [drawn EXCEPT ![w] = <<IF visible THEN map ELSE "blank">>]
        /\ UNCHANGED <<drv, Segment, packing>>

-----------------------------------------------------------------------------
(* Bars. *)

Res(dir) == IF Horizontal(dir) THEN drv.XRES ELSE drv.YRES
Part(val, res) == Max({0, Min({val, res})})

\* drv_generic_text_bar_create_bar: every cell of the bar gets its part of the values.
\* Bars to the west and the north fill up from their far end.  Bars to the north and the
\* south end with the layout and have no style but in their first cell.
Bar(fb, w, val1, val2) ==
    LET res == Res({w.dir})
        Value(val, k) == IF w.dir \in {"W", "N"} THEN res - Part((w.len * res - val) - k * res, res)
                                                 ELSE Part(val - k * res, res)
        Style(k, old) ==
            IF ~w.style THEN old
            ELSE IF Horizontal({w.dir}) /\ k = w.len - 1 THEN "last"
            ELSE IF k = 0 THEN "first"
            ELSE IF Horizontal({w.dir}) /\ old = "none" THEN "hollow" ELSE old
        Place(cell) == IF Horizontal({w.dir}) THEN cell[2] - w.col ELSE cell[1] - w.row
    IN  [cell \in DOMAIN fb |->
            IF cell \in AreaOfBar(w)
            THEN [val1 |-> Value(val1, Place(cell)), val2 |-> Value(val2, Place(cell)),
                  dir |-> {w.dir}, style |-> Style(Place(cell), fb[cell].style)]
            ELSE fb[cell]]

\* Whether a segment serves a cell.
Serves(seg, bar) ==
    LET res == Res(bar.dir)
        l1 == Min({seg.val1, res})
        l2 == Min({seg.val2, res})
    IN  /\ l1 = bar.val1 /\ l2 = bar.val2
        /\ \/ l1 = res /\ l2 = res
           \/ seg.style = bar.style /\ ({l1, l2} \subseteq {0, res} \/ seg.dir \cap bar.dir # {})

\* Chars that bars may define.
BarChars == drv.CHARS - drv.ICONS

\* The segments without those that are unused.
UsedSegments ==
    LET packed[i \in 0..Len(Segment)] ==
            IF i = 0 THEN <<>>
            ELSE IF i <= fSegment \/ Segment[i].used THEN Append(packed[i - 1], Segment[i])
            ELSE packed[i - 1]
    IN  packed[Len(Segment)]

\* The cell of a bar is served by the first segment that does, by a new one if there is none.
Serve(acc, fb, cell) ==
    LET bar == fb[cell]
        serving == {i \in DOMAIN acc.segs : Serves(acc.segs[i], bar)}
        By(i) == [c \in DOMAIN acc.at \cup {cell} |-> IF c = cell THEN i ELSE acc.at[c]]
        new == [val1 |-> bar.val1, val2 |-> bar.val2, dir |-> bar.dir, style |-> bar.style,
                used |-> FALSE, ascii |-> -1]
    IN  IF bar.dir = {} THEN acc
        ELSE IF serving # {} THEN [segs |-> acc.segs, at |-> By(Min(serving))]
        ELSE [segs |-> Append(acc.segs, new), at |-> By(Len(acc.segs) + 1)]

\* drv_generic_text_bar_create_segments: unused segments go, and every cell is looked at, row
\* by row.
CreateSegments(fb, rows, cols) ==
    LET served[k \in 0..rows * cols] ==
            IF k = 0 THEN [segs |-> UsedSegments, at |-> <<>>]
            ELSE Serve(served[k - 1], fb, <<(k - 1) \div cols, (k - 1) % cols>>)
    IN  served[rows * cols]

\* drv_generic_text_bar_segment_error: what it costs to show b for a; 65535 is never.
Never == 65535
SegmentError(a, b) ==
    LET res == Res(a.dir)
        i1 == Min({a.val1, res})   i2 == Min({a.val2, res})
        j1 == Min({b.val1, res})   j2 == Min({b.val2, res})
        StartLine == BarChars > 0
                     /\ ((i1 = 1 /\ j1 # 1 /\ i2 > 0) \/ (i2 = 1 /\ j2 # 1 /\ j1 > 0))
    IN  IF \/ a.dir \cap b.dir = {} \/ a.style # b.style
           \/ (i1 = 0 /\ j1 # 0) \/ (i2 = 0 /\ j2 # 0)
           \/ (i1 = res /\ j1 < res) \/ (i2 = res /\ j2 < res)
           \/ StartLine \/ (i1 = i2 /\ j1 # j2)
        THEN Never
        ELSE (i1 - j1) * (i1 - j1) + (i2 - j2) * (i2 - j2)

\* Variant for mutation: cells of the last segment keep its old number.
RelocatedNot(s, i, j, n) == IF s = i THEN j ELSE s

\* The segment of a cell, when i is replaced by j and the last one, n, moves to i.
Relocated(s, i, j, n) == LET t == IF s = i THEN j ELSE s IN IF t = n THEN i ELSE t

\* A round of drv_generic_text_bar_pack_segments: while there are too many segments, the
\* cheapest replacement, first among the new segments only.  The last segment moves to the
\* place of the one that was replaced, and so do its errors, row and column; but to the
\* diagonal, which was Never, goes what the old segment had for the last one.  Where nothing
\* can be replaced the number of segments is set to something smaller.  Cells may keep
\* numbers of segments behind the last one, which stay in the array.
PackOnce(p) ==
    LET candidates == {i \in fSegment + 1..p.n : ~(p.pass1 /\ p.segs[i].used)}
        Error(i, j) == IF i = j THEN p.diagonal[i] ELSE SegmentError(p.segs[i], p.segs[j])
        errors == {<<Error(i, j), i, j>> : i \in candidates, j \in 1..p.n}
        cheapest == Min({e[1] : e \in errors})
        best == CHOOSE e \in errors : e[1] = cheapest /\ \A f \in errors :
                    f[1] = cheapest => e = f \/ Before(Tail(e), Tail(f))
        pack_i == best[2]
        pack_j == best[3]
    IN  IF p.n <= fSegment + BarChars THEN p
        ELSE IF \A e \in errors : e[1] = Never
        THEN IF p.pass1 THEN [p EXCEPT !.pass1 = FALSE]
             ELSE [p EXCEPT !.n = BarChars, !.packed = "not"]
        ELSE [p EXCEPT !.segs[pack_i] = p.segs[p.n], !.n = @ - 1,
                       !.at = [cell \in DOMAIN @ |-> Relocated(@[cell], pack_i, pack_j, p.n)],
                       !.diagonal[pack_i] = Error(pack_i, p.n),
                       !.packed = IF pack_i = pack_j THEN "by itself" ELSE IF @ = "exactly" THEN "well" ELSE @]

\* A round for every segment that may go, and one to turn to the used segments.
PackSegments(created) ==
    LET packs[k \in 0..Len(created.segs) + 1] ==
            IF k = 0
            THEN [segs |-> created.segs, n |-> Len(created.segs), at |-> created.at,
                  diagonal |-> [i \in DOMAIN created.segs |-> Never], pass1 |-> TRUE, packed |-> "exactly"]
            ELSE PackOnce(packs[k - 1])
    IN  packs[Len(created.segs) + 1]

\* What the pixels of a segment show.  Nothing is drawn for bars to the west: the buffer
\* is not initialised.  Vertical bars have one value.
LookOfSegment(seg) ==
    IF "W" \in seg.dir THEN <<"garbage">>
    ELSE <<"bar", seg.val1, IF Horizontal(seg.dir) THEN seg.val2 ELSE seg.val1>>

\* A new segment gets a free char.
Define(acc, i, n) ==
    LET taken == {acc.segs[j].ascii : j \in fSegment + 1..n}
        c == Min((0..BarChars) \ (taken \ {BarChars}))
    IN  IF i <= fSegment \/ acc.segs[i].used \/ acc.segs[i].ascii # -1 THEN acc
        ELSE [segs |-> [acc.segs EXCEPT ![i].ascii = c],
              looks |-> [acc.looks EXCEPT ![drv.CHAR0 + c] = LookOfSegment(acc.segs[i])],
              new |-> acc.new \cup {i}]

\* drv_generic_text_bar_define_chars
DefineChars(packed) ==
    LET defined[i \in 0..packed.n] ==
            IF i = 0 THEN [segs |-> packed.segs, looks |-> glyphs, new |-> {}]
            ELSE Define(defined[i - 1], i, packed.n)
    IN  defined[packed.n]

\* drv_generic_text_bar_draw, val1 and val2 being scaled to 1..len * res, and equal if there
\* are single segments only.
DrawBar(w, val1, val2) ==
    LET rows == w.row + 1
        cols == w.col + (IF Horizontal({w.dir}) THEN w.len ELSE 1)
        old == Resized(LayoutFB, rows, cols, Blank)
    IN  \E grown \in BarsResized(rows, cols) : \E fb \in {Bar(grown, w, val1, val2)} :
        \E packed \in {PackSegments(CreateSegments(fb, Max({rows, LROWS}), Max({cols, LCOLS})))} :
        \E defined \in {DefineChars(packed)} :
            LET segs == defined.segs
                at == packed.at
                AsciiAt(cell) == IF at[cell] > fSegment THEN drv.CHAR0 + segs[at[cell]].ascii
                                 ELSE segs[at[cell]].ascii
                shown == {cell \in DOMAIN at : segs[at[cell]].ascii # -1}
                layout == [cell \in DOMAIN old |-> IF cell \in shown THEN AsciiAt(cell) ELSE old[cell]]
                invalid == IF drv.INVALIDATE THEN {cell \in DOMAIN at : at[cell] \in defined.new} ELSE {}
            IN  /\ Resize(rows, cols)
                /\ BarFB' = fb
                /\ Segment' = [i \in 1..Max({fSegment, packed.n}) |->
                                  [segs[i] EXCEPT !.used = \E cell \in DOMAIN at : at[cell] = i]]
                /\ glyphs' = defined.looks
                /\ LayoutFB' = layout
                /\ Blit(layout, Invalidated(layout, invalid), defined.looks, DOMAIN layout)
                /\ packing' = packed.packed
                /\ Overruns(invalid)
                /\ drawn' = [drawn EXCEPT ![w] = <<val1, val2>>]
                /\ UNCHANGED <<drv, icon>>

TextNext ==
    \/ \E w \in drv.texts : \E text \in w.texts : DrawText(w, text)
    \/ \E w \in drv.icons, visible \in BOOLEAN : \E map \in w.maps : DrawIcon(w, map, visible)
    \/ \E w \in drv.bars : \E val1, val2 \in w.vals :
          /\ drv.Single_Segments => val2 = val1
          /\ DrawBar(w, val1, val2)

TextSpec == TextInit /\ [][TextNext]_textVars

-----------------------------------------------------------------------------
(* Properties. *)

\* What the eye sees in a cell of the display.
Seen(cell) ==
    LET shown == device[Address(cell)]
    IN  IF drv.INVALIDATE THEN shown.look ELSE LookOf(shown.char, glyphs)

\* drv_generic_text_blit leaves out what the display shows already, and other widgets
\* re-define chars and make DisplayFB wrong on purpose: on the display, there is
\* always what a text or an icon drew last, as it looks now.
TextsShown ==
    /\ \A w \in drv.texts : \A i \in DOMAIN drawn[w] :
          LET cell == <<w.row, w.col + i - 1>>
          IN  OnDisplay(cell) => Seen(cell) = <<"char", drawn[w][i]>>
    /\ \A w \in drv.icons :
          drawn[w] # Undrawn /\ OnDisplay(<<w.row, w.col>>) =>
              Seen(<<w.row, w.col>>) = IF drawn[w][1] = "blank" THEN <<"char", Blank>> ELSE <<"icon", drawn[w][1]>>

\* The two values that a cell of a bar seems to have.
SeenValues(cell) ==
    LET seen == Seen(cell)
        fixed == {f \in {drv.fixed[i] : i \in DOMAIN drv.fixed} : seen = <<"char", f.ascii>>}
        f == CHOOSE f \in fixed : TRUE
        res == Res(BarFB[cell].dir)
    IN  IF seen[1] = "bar" THEN <<seen[2], seen[3]>>
        ELSE IF fixed # {} THEN <<Min({f.val1, res}), Min({f.val2, res})>>
        ELSE seen

BarCells == {cell \in DOMAIN BarFB : OnDisplay(cell) /\ BarFB[cell].dir # {} /\ "W" \notin BarFB[cell].dir}

\* Vertical bars show their first value only.
Shows(cell, k) ==
    Horizontal(BarFB[cell].dir) \/ k = 1
        => SeenValues(cell)[k] = <<BarFB[cell].val1, BarFB[cell].val2>>[k]
EmptyOrFull(cell, k) == <<BarFB[cell].val1, BarFB[cell].val2>>[k] \in {0, Res(BarFB[cell].dir)}

\* Chars are defined anew while other cells show them, and segments are moved, dropped and
\* replaced: where none had to be replaced all bars look as they should, and what should be
\* empty or full does in any case, unless nothing can be replaced or a segment replaced itself.
BarsShown ==
    \A cell \in BarCells : \A k \in {1, 2} :
        packing = "exactly" \/ (packing = "well" /\ EmptyOrFull(cell, k)) => Shows(cell, k)
=============================================================================
