---------------------------- MODULE GraphicDisplay ----------------------------
(***************************************************************************)
(* Graphic displays (drv_generic_graphic.c and the blit of the drivers).   *)
(* Widgets draw into one of several layers, which grow with them; the      *)
(* layers are blended, and the driver sends what it holds for changed: the *)
(* bytes that differ from what it sent last, runs of them with short gaps, *)
(* a range of columns or a rectangle around them, or everything, at once   *)
(* or when its timer fires.                                                *)
(*                                                                         *)
(* A pixel of a layer is "none" (transparent), "light" or "dark"; colours  *)
(* between them, and fonts, only decide which of these a pixel is.         *)
(***************************************************************************)
EXTENDS Integers, FiniteSets, FiniteSetsExt

CONSTANTS
    GraphicDrivers, \* the driver, its background's colour, and the widgets of a layout
    Layers,
    GROWS, GCOLS,   \* size of the display
    SCOLS,          \* length of a page in the memory of the LPH7508 (166 for 100 columns)
    BITS,           \* pixels of a byte; GCOLS and GROWS are multiples of it
    MaxDrawings     \* bound

ASSUME GraphicAssumption ==
    /\ Layers \in Nat /\ GROWS \in Nat \ {0} /\ GCOLS \in Nat \ {0} /\ BITS \in Nat \ {0}
    /\ SCOLS \in Nat /\ SCOLS > GCOLS

VARIABLES
    graphic,    \* the driver and its layout
    FB,         \* layers of pixels
    screen,     \* the display: pixels that are dark
    Buffer1,    \* the driver's copy of the picture: its dark pixels
    Buffer2,    \* what the driver counts as sent: its dark pixels
    refresh,    \* pixels that wait for the driver's timer
    lost,       \* history: pixels in a transfer that failed, not sent since
    drawings    \* bound: how often widgets were drawn

graphicVars == <<graphic, FB, screen, Buffer1, Buffer2, refresh, lost, drawings>>

Grid(rows, cols) == (0..rows - 1) \X (0..cols - 1)
Pixels == Grid(GROWS, GCOLS)
Height(fb) == 1 + Max({p[1] : p \in DOMAIN fb})
Width(fb) == 1 + Max({p[2] : p \in DOMAIN fb})

\* Bytes hold pixels of a column, those of the T6963 pixels of a row.
ByteOf(p) ==
    CASE graphic.driver = "T6963"   -> (p[1] * GCOLS + p[2]) \div BITS
      [] graphic.driver = "LPH7508" -> (p[1] \div BITS) * SCOLS + p[2]
      [] OTHER                      -> (p[1] \div BITS) * GCOLS + p[2]
In(bytes) == {p \in Pixels : ByteOf(p) \in bytes}

GraphicInit ==
    /\ graphic \in GraphicDrivers
    /\ FB = [l \in 0..Layers - 1 |-> [p \in Pixels |-> "none"]]
    /\ screen = {} /\ Buffer1 = {} /\ Buffer2 = {}
    /\ refresh = {} /\ lost = {} /\ drawings = 0

-----------------------------------------------------------------------------
(* The layers. *)

\* drv_generic_graphic_resizeFB
ResizedLayer(fb, rows, cols) ==
    [p \in DOMAIN fb \cup Grid(Max({rows, Height(fb)}), Max({cols, Width(fb)})) |->
        IF p \in DOMAIN fb THEN fb[p] ELSE "none"]

\* Variant for mutation: the layers below count.
BlendBelow(layers, p) ==
    LET opaque == {l \in 0..Layers - 1 : layers[l][p] # "none"}
    IN  opaque # {} /\ layers[Max(opaque)][p] = "dark"

\* drv_generic_graphic_blend and _black: the first opaque layer covers those below it.
Black(layers, p) ==
    LET opaque == {l \in 0..Layers - 1 : layers[l][p] # "none"}
    IN  opaque # {} /\ layers[Min(opaque)][p] = "dark"

\* drv_generic_graphic_window: the part of a widget's rectangle that is on the display.
Window(w) == {p \in Pixels : p[1] \in w.row..w.row + w.height - 1 /\ p[2] \in w.col..w.col + w.width - 1}

\* drv_generic_graphic_bar_draw: the pixel (y, x) of a bar; the upper or left half shows
\* val1, the other val2.
BarInk(w, vals, y, x) ==
    LET lying == w.dir \in {"E", "W"}
        length == IF lying THEN w.width ELSE w.height
        across == IF lying THEN w.height ELSE w.width
        at == IF lying THEN x ELSE y
        beside == IF lying THEN y ELSE x
        val == LET v == Min({length, Max({1, IF beside < across \div 2 THEN vals[1] ELSE vals[2]})})
               IN  IF w.dir \in {"W", "N"} THEN length - v ELSE v
        edge == at \in {0, length - 1} \/ beside \in {0, across - 1}
    IN  IF (w.hollow /\ edge) \/ (at < val) = (w.dir \in {"E", "S"}) THEN "dark" ELSE w.bg

\* drv_generic_graphic_render, _icon_draw, _image_draw: a widget's pixels; one that is not
\* visible is drawn in the background's colour of the display, whatever its own is.
Ink(w, what, y, x) ==
    CASE w.kind = "bar" -> BarInk(w, what, y, x)
      [] what = 0 -> graphic.BG_COL
      [] OTHER -> w.looks[what][y + 1][x + 1]
Whats(w) ==
    IF w.kind = "bar" THEN w.vals ELSE DOMAIN w.looks \cup (IF w.kind = "text" THEN {} ELSE {0})

Drawn(w, what) ==
    [l \in 0..Layers - 1 |->
        LET fb == ResizedLayer(FB[l], w.row + w.height, w.col + w.width)
        IN  [p \in DOMAIN fb |->
                IF /\ l = w.layer
                   /\ p[1] \in w.row..w.row + w.height - 1 /\ p[2] \in w.col..w.col + w.width - 1
                THEN Ink(w, what, p[1] - w.row, p[2] - w.col) ELSE fb[p]]]

-----------------------------------------------------------------------------
(* What the drivers send, given the dark pixels of their new buffer and the region of the *)
(* blit.                                                                                  *)

\* The bytes in which two pictures differ; with the gaps of up to gap equal bytes.
Differ(dark, other) == (dark \ other) \cup (other \ dark)
Changes(dark, other) == {ByteOf(p) : p \in Differ(dark, other)}
Joined(bytes, gap) ==
    bytes \cup UNION {{a \in b..c : c - b - 1 <= gap} : b, c \in bytes}

\* One byte more is sent where the last run of a range is not ended by a long gap.
Overshot(bytes, last, gap) ==
    IF bytes # {} /\ last - Max(bytes) <= gap THEN {Max(bytes) + 1} ELSE {}

Rows(region) == {p[1] : p \in region}
Pages(region) == {r \div BITS : r \in Rows(region)}
Cols(region) == {p[2] : p \in region}

\* A transfer of pixels that arrives.
Sends(pixels, dark) ==
    /\ screen' = (screen \ pixels) \cup (pixels \cap dark)
    /\ lost' = lost \ pixels

\* A transfer in parts, some of which may fail, which is logged at most.
Tries(pixels, parts, dark) ==
    \E failed \in SUBSET parts :
        \E arrived \in {pixels \ UNION failed} :
            /\ screen' = (screen \ arrived) \cup (arrived \cap dark)
            /\ lost' = (lost \cup UNION failed) \ arrived

\* drv_T6_blit: row by row, the range ends with the byte behind the last one.
T6963(dark, region) ==
    LET Last(r) == (r * GCOLS + Max(Cols(region)) + BITS) \div BITS
        Changed(r) == {ByteOf(p) : p \in {q \in Differ(dark, Buffer2) : q[1] = r}}
                      \cap (((r * GCOLS + Min(Cols(region))) \div BITS)..Last(r))
        sent == In(UNION {Joined(Changed(r), 4) \cup Overshot(Changed(r), Last(r), 4) : r \in Rows(region)})
    IN  /\ Buffer2' = (Buffer2 \ sent) \cup (dark \cap sent)
        /\ Sends(sent, dark)
        /\ UNCHANGED refresh

\* drv_L7_blit: page by page.  A byte too many behind the last column is beside the glass.
LPH7508(dark, region) ==
    LET Last(p) == p * SCOLS + Max(Cols(region))
        Changed(p) == Changes(dark, Buffer2) \cap (p * SCOLS + Min(Cols(region)))..Last(p)
        sent == In(UNION {Joined(Changed(p), 2) \cup Overshot(Changed(p), Last(p), 2) : p \in Pages(region)})
    IN  /\ Buffer2' = (Buffer2 \ sent) \cup (dark \cap sent)
        /\ Sends(sent, dark)
        /\ UNCHANGED refresh

\* drv_GLCD2USB_blit: what changed in this blit, short gaps closed also before the first
\* change, in a report for each run.
GLCD2USB(dark, region) ==
    LET changed == Changes(dark, Buffer1)
        gaps == IF changed # {} /\ Min(changed) <= 4 THEN 0..Min(changed) ELSE {}
    IN  /\ \E sent \in {Joined(changed, 4) \cup gaps} :
               Tries(In(sent), {In({c \in sent : (b..c) \cup (c..b) \subseteq sent}) : b \in sent}, dark)
        /\ UNCHANGED <<Buffer2, refresh>>

\* drv_dpf_blit: the rectangle around the pixels that changed.
dpf(dark, region) ==
    LET changed == Differ(dark, Buffer1)
        around == IF changed = {} THEN {}
                  ELSE (Min(Rows(changed))..Max(Rows(changed))) \X (Min(Cols(changed))..Max(Cols(changed)))
    IN  /\ Tries(around, {around}, dark)
        /\ UNCHANGED <<Buffer2, refresh>>

\* drv_EA232graphic_blit: the region itself.
EA232graphic(dark, region) ==
    /\ Tries(region, {region}, dark)
    /\ UNCHANGED <<Buffer2, refresh>>

\* drv_MOGX_blit, drv_G15_blit, drv_st2205_blit: the whole picture.
WholePicture(dark, region) ==
    /\ Tries(Pixels, {Pixels}, dark)
    /\ UNCHANGED <<Buffer2, refresh>>

\* drv_MDM166A_blit: the columns from the first to the last that changed since the last
\* refresh wait for the timer.
MDM166A(dark, region) ==
    LET changed == Cols(Differ(dark, Buffer1))
        first == IF refresh = {} THEN Max(Cols(region)) - Min(Cols(region)) + 1 ELSE Min(Cols(refresh))
        last == IF refresh = {} THEN -1 ELSE Max(Cols(refresh))
    IN  /\ refresh' = IF changed = {} THEN refresh
                      ELSE {p \in Pixels : p[2] \in Min(changed \cup {first})..Max(changed \cup {last})}
        /\ UNCHANGED <<screen, lost, Buffer2>>

\* drv_pLG_blit marks the picture in any case, drv_SamsungSPF_blit where it changed.
WaitingPicture(dark, region) ==
    /\ refresh' = IF graphic.driver = "picoLCDGraphic" \/ dark # Buffer1 THEN Pixels ELSE refresh
    /\ UNCHANGED <<screen, lost, Buffer2>>

\* What a driver takes over of the picture: that of the LPH7508 leaves out its
\* last row, which it takes for an extra one with symbols.
Reached == IF graphic.driver = "LPH7508" THEN Grid(GROWS - 1, GCOLS) ELSE Pixels

BlitPicture(layers, region) ==
    \E dark \in {(Buffer1 \ region) \cup {p \in region : p \in Reached /\ Black(layers, p)}} :
        /\ Buffer1' = dark
        /\ \/ graphic.driver = "T6963" /\ T6963(dark, region)
           \/ graphic.driver = "LPH7508" /\ LPH7508(dark, region)
           \/ graphic.driver = "GLCD2USB" /\ GLCD2USB(dark, region)
           \/ graphic.driver = "dpf" /\ dpf(dark, region)
           \/ graphic.driver = "EA232graphic" /\ EA232graphic(dark, region)
           \/ graphic.driver = "MatrixOrbitalGX" /\ WholePicture(dark, region)
           \/ graphic.driver = "mdm166a" /\ MDM166A(dark, region)
           \/ graphic.driver \in {"picoLCDGraphic", "SamsungSPF"} /\ WaitingPicture(dark, region)

\* A widget is drawn; drv_generic_graphic_blit does nothing for one beside the display.
DrawWidget(w, what) ==
    /\ drawings < MaxDrawings /\ drawings' = drawings + 1
    /\ FB' = Drawn(w, what)
    /\ IF Window(w) = {} THEN UNCHANGED <<screen, Buffer1, Buffer2, refresh, lost>>
       ELSE BlitPicture(FB', Window(w))
    /\ UNCHANGED graphic

\* The timers: drv_MDM166A_Flush, drv_pLG_update_img, drv_SamsungSPF_timer.
Refresh ==
    /\ refresh # {}
    /\ refresh' = {}
    /\ Tries(refresh, {refresh}, Buffer1)
    /\ UNCHANGED <<graphic, FB, Buffer1, Buffer2, drawings>>

GraphicNext ==
    \/ \E w \in graphic.widgets : \E what \in Whats(w) : DrawWidget(w, what)
    \/ Refresh

GraphicSpec == GraphicInit /\ [][GraphicNext]_graphicVars

-----------------------------------------------------------------------------
(* Properties. *)

\* The display shows at pixels what the first layer that is opaque there shows.
Shown(pixels) ==
    \A p \in pixels \ lost :
        p \in screen <=> \E l \in 0..Layers - 1 : FB[l][p] = "dark" /\ \A k \in 0..l - 1 : FB[k][p] = "none"

\* When no refresh is due, the display shows the layers' picture, however widgets of several
\* layers overlap, reach beyond the display and change in turns, and whatever gaps and
\* ranges the driver makes of the changes; except where a transfer failed, which no driver
\* repeats before the next change, and in the last row of the LPH7508.
PixelsShown == refresh = {} => Shown(Reached)
=============================================================================
