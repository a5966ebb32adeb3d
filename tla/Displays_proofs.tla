--------------------------- MODULE Displays_proofs ---------------------------
(***************************************************************************)
(* What displays show, of any size, with any widgets and any driver.       *)
(*                                                                         *)
(* Graphic displays show the picture of their layers: every driver sends   *)
(* at least what its copy of the picture and the display differ in, and    *)
(* what it sends beyond that is right as well.                             *)
(*                                                                         *)
(* Text displays show what texts and icons drew last, whatever bars do to  *)
(* the characters that they share with the icons.                          *)
(***************************************************************************)
EXTENDS GraphicDisplay, TextDisplay, Recursion_proofs, FiniteSetTheorems

-----------------------------------------------------------------------------
(* GRAPHIC DISPLAYS *)

-----------------------------------------------------------------------------
(* Regions. *)

\* The rows and columns of a region of the display.
LEMMA RegionBounds ==
    ASSUME NEW region \in SUBSET Pixels, region # {}
    PROVE  /\ Min(Rows(region)) \in 0..GROWS - 1 /\ Max(Rows(region)) \in 0..GROWS - 1
           /\ Min(Cols(region)) \in 0..GCOLS - 1 /\ Max(Cols(region)) \in 0..GCOLS - 1
           /\ \A p \in region : /\ Min(Rows(region)) <= p[1] /\ p[1] <= Max(Rows(region))
                                /\ Min(Cols(region)) <= p[2] /\ p[2] <= Max(Cols(region))
<1> DEFINE R == Rows(region)
           C == Cols(region)
           r == GROWS - 1
           c == GCOLS - 1
<1>1. r \in Int /\ c \in Int /\ 0 \in Int
  BY GraphicAssumption
<1>2. R \in SUBSET (0..r) /\ R # {}
  BY DEF Rows, Pixels, Grid
<1>3. C \in SUBSET (0..c) /\ C # {}
  BY DEF Cols, Pixels, Grid
<1>4. \A p \in region : p[1] \in R /\ p[2] \in C
  BY DEF Rows, Cols
<1> HIDE DEF R, C, r, c
<1>5. Min(R) \in R /\ Max(R) \in R /\ \A k \in R : Min(R) <= k /\ k <= Max(R)
  BY <1>1, <1>2, MinMax
<1>6. Min(C) \in C /\ Max(C) \in C /\ \A k \in C : Min(C) <= k /\ k <= Max(C)
  BY <1>1, <1>3, MinMax
<1> QED BY <1>2, <1>3, <1>4, <1>5, <1>6 DEF R, C, r, c

-----------------------------------------------------------------------------
(* The layers. *)

\* A pixel of layers is dark as PixelsShown says it.
Covered(layers, p) ==
    \E l \in 0..Layers - 1 : layers[l][p] = "dark" /\ \A k \in 0..l - 1 : layers[k][p] = "none"

LEMMA BlackCovered ==
    ASSUME NEW layers, NEW p
    PROVE  Black(layers, p) <=> Covered(layers, p)
<1> DEFINE opaque == {l \in 0..Layers - 1 : layers[l][p] # "none"}
<1>1. Layers - 1 \in Int /\ 0 \in Int /\ opaque \in SUBSET (0..Layers - 1)
  BY GraphicAssumption
<1>2. CASE opaque = {}
  <2>1. ~Black(layers, p)
    BY <1>2 DEF Black
  <2>2. ~Covered(layers, p)
    BY <1>2 DEF Covered
  <2> QED BY <2>1, <2>2
<1>3. CASE opaque # {}
  <2> DEFINE first == Min(opaque)
  <2>1. first \in opaque /\ \A k \in opaque : first <= k
    <3> DEFINE last == Layers - 1
    <3> HIDE DEF opaque, last
    <3>1. last \in Int /\ 0 \in Int /\ opaque \in SUBSET (0..last)
      BY <1>1 DEF last
    <3> QED BY <1>3, <3>1, MinMax
  <2>2. Black(layers, p) <=> layers[first][p] = "dark"
    BY <1>3 DEF Black
  <2> HIDE DEF first
  <2>3. first \in 0..Layers - 1 /\ layers[first][p] # "none"
    BY <2>1
  <2>4. \A k \in 0..first - 1 : layers[k][p] = "none"
    <3>1. ASSUME NEW k \in 0..first - 1, layers[k][p] # "none" PROVE FALSE
      <4>1. k \in opaque
        BY <1>1, <2>3, <3>1
      <4>2. first <= k
        BY <2>1, <4>1
      <4> QED BY <1>1, <2>3, <4>2
    <3> QED BY <3>1
  <2>5. ASSUME Covered(layers, p) PROVE layers[first][p] = "dark"
    <3>1. PICK l \in 0..Layers - 1 : layers[l][p] = "dark" /\ \A k \in 0..l - 1 : layers[k][p] = "none"
      BY <2>5 DEF Covered
    <3>2. l \in opaque
      BY <3>1
    <3>3. first <= l /\ ~(first \in 0..l - 1)
      BY <2>1, <2>3, <3>1, <3>2
    <3>4. first = l
      BY <1>1, <2>3, <3>3
    <3> QED BY <3>1, <3>4
  <2>6. ASSUME layers[first][p] = "dark" PROVE Covered(layers, p)
    BY <2>3, <2>4, <2>6 DEF Covered
  <2> QED BY <2>2, <2>5, <2>6
<1> QED BY <1>2, <1>3

\* Layers that agree in a pixel agree in whether it is dark.
LEMMA BlackKept ==
    ASSUME NEW layers, NEW others, NEW p, \A l \in 0..Layers - 1 : layers[l][p] = others[l][p]
    PROVE  Black(layers, p) <=> Black(others, p)
<1>1. Layers \in Nat
  BY GraphicAssumption
<1>2. \A l \in 0..Layers - 1 : \A k \in 0..l - 1 : k \in 0..Layers - 1
  BY <1>1
<1>3. Covered(layers, p) <=> Covered(others, p)
  BY <1>2 DEF Covered
<1> QED BY <1>3, BlackCovered

\* Every layer has all pixels of the display.
FullLayers(layers) == \A l \in 0..Layers - 1 : Pixels \subseteq DOMAIN layers[l]

\* A widget leaves the layers alone but for its window.
LEMMA DrawnElsewhere ==
    ASSUME FullLayers(FB), NEW w, NEW what
    PROVE  /\ FullLayers(Drawn(w, what))
           /\ \A l \in 0..Layers - 1, p \in Pixels \ Window(w) : Drawn(w, what)[l][p] = FB[l][p]
<1> SUFFICES ASSUME NEW l \in 0..Layers - 1
             PROVE  /\ Pixels \subseteq DOMAIN Drawn(w, what)[l]
                    /\ \A p \in Pixels \ Window(w) : Drawn(w, what)[l][p] = FB[l][p]
  BY DEF FullLayers
<1> DEFINE fb == ResizedLayer(FB[l], w.row + w.height, w.col + w.width)
<1>1. Pixels \subseteq DOMAIN FB[l]
  BY DEF FullLayers
<1>2. Pixels \subseteq DOMAIN fb /\ \A p \in Pixels : fb[p] = FB[l][p]
  BY <1>1 DEF ResizedLayer
<1>3. Drawn(w, what)[l] =
        [p \in DOMAIN fb |->
            IF /\ l = w.layer
               /\ p[1] \in w.row..w.row + w.height - 1 /\ p[2] \in w.col..w.col + w.width - 1
            THEN Ink(w, what, p[1] - w.row, p[2] - w.col) ELSE fb[p]]
  BY DEF Drawn
<1> HIDE DEF fb
<1>4. \A p \in Pixels \ Window(w) :
         ~(p[1] \in w.row..w.row + w.height - 1 /\ p[2] \in w.col..w.col + w.width - 1)
  BY DEF Window
<1> QED BY <1>2, <1>3, <1>4

-----------------------------------------------------------------------------
(* The inductive invariant. *)

\* The drivers' copies are pictures of the display.
CopiesTyped ==
    /\ FullLayers(FB)
    /\ screen \in SUBSET Pixels /\ Buffer1 \in SUBSET Pixels /\ Buffer2 \in SUBSET Pixels
    /\ refresh \in SUBSET Pixels /\ lost \in SUBSET Pixels

\* The driver's copy is the picture of the layers, as far as it takes that over.
CopyKept == Buffer1 = {p \in Reached : Black(FB, p)}

\* The display and the copy agree in what neither waits nor was lost.
DisplayKept == \A p \in Pixels \ (lost \cup refresh) : p \in screen <=> p \in Buffer1

\* Two drivers compare with what they count as sent: that is on the display, and nothing of
\* theirs waits or is lost.
Compares == graphic.driver \in {"T6963", "LPH7508"}
SentKept == Compares => Buffer2 = screen /\ refresh = {} /\ lost = {}

GraphicInv == CopiesTyped /\ CopyKept /\ DisplayKept /\ SentKept

-----------------------------------------------------------------------------
(* Transfers. *)

\* The pixels in which a new copy differs from another picture are among those sent.
Reaches(pixels, dark, other) == Differ(dark, other) \subseteq pixels

\* After a transfer that arrives, the display agrees with the new copy outside of what waits.
LEMMA SendsKeeps ==
    ASSUME CopiesTyped, DisplayKept,
           NEW pixels \in SUBSET Pixels, NEW dark \in SUBSET Pixels,
           Reaches(pixels, dark, Buffer1), Sends(pixels, dark), refresh' = refresh
    PROVE  /\ screen' \in SUBSET Pixels /\ lost' \in SUBSET Pixels
           /\ \A p \in Pixels \ (lost' \cup refresh') : p \in screen' <=> p \in dark
<1>1. screen' = (screen \ pixels) \cup (pixels \cap dark) /\ lost' = lost \ pixels
  BY DEF Sends
<1>2. ASSUME NEW p \in Pixels \ (lost' \cup refresh') PROVE p \in screen' <=> p \in dark
  <2>1. CASE p \in pixels
    BY <1>1, <2>1
  <2>2. CASE p \notin pixels
    <3>1. p \in Pixels \ (lost \cup refresh)
      BY <1>1, <2>2
    <3>2. p \in screen <=> p \in Buffer1
      BY <3>1 DEF DisplayKept
    <3>3. p \in Buffer1 <=> p \in dark
      BY <2>2 DEF Reaches, Differ
    <3> QED BY <1>1, <2>2, <3>2, <3>3
  <2> QED BY <2>1, <2>2
<1> QED BY <1>1, <1>2 DEF CopiesTyped

\* The same of a transfer that may fail in parts: what failed is lost.  W are pixels that
\* wait: they are still right to wait, or the transfer is for them.
LEMMA TriesKeeps ==
    ASSUME CopiesTyped,
           NEW pixels \in SUBSET Pixels, NEW parts \in SUBSET SUBSET pixels, NEW dark \in SUBSET Pixels,
           NEW W,
           \A p \in Pixels \ (lost \cup pixels \cup W) : p \in screen <=> p \in dark,
           Tries(pixels, parts, dark)
    PROVE  /\ screen' \in SUBSET Pixels /\ lost' \in SUBSET Pixels
           /\ \A p \in Pixels \ (lost' \cup W) : p \in screen' <=> p \in dark
<1>1. PICK failed \in SUBSET parts : \E arrived \in {pixels \ UNION failed} :
         /\ screen' = (screen \ arrived) \cup (arrived \cap dark)
         /\ lost' = (lost \cup UNION failed) \ arrived
  BY DEF Tries
<1> DEFINE arrived == pixels \ UNION failed
<1>0. /\ screen' = (screen \ arrived) \cup (arrived \cap dark)
      /\ lost' = (lost \cup UNION failed) \ arrived
  BY <1>1
<1>2. UNION failed \subseteq pixels
  OBVIOUS
<1>3. ASSUME NEW p \in Pixels \ (lost' \cup W) PROVE p \in screen' <=> p \in dark
  <2>1. CASE p \in arrived
    BY <1>0, <2>1
  <2>2. CASE p \notin arrived
    <3>1. p \notin pixels /\ p \notin lost
      BY <1>0, <2>2
    <3> QED BY <1>0, <1>3, <2>2, <3>1
  <2> QED BY <2>1, <2>2
<1> QED BY <1>0, <1>2, <1>3 DEF CopiesTyped

\* A new copy differs from the old one only in the region of the blit.
ChangedWithin(dark, region) ==
    /\ region \in SUBSET Pixels /\ region # {} /\ dark \in SUBSET Pixels
    /\ Differ(dark, Buffer1) \subseteq region

\* What a driver's blit has to see to.
PictureKept(dark) ==
    /\ screen' \in SUBSET Pixels /\ lost' \in SUBSET Pixels
    /\ Buffer2' \in SUBSET Pixels /\ refresh' \in SUBSET Pixels
    /\ \A p \in Pixels \ (lost' \cup refresh') : p \in screen' <=> p \in dark
    /\ Compares => Buffer2' = screen' /\ refresh' = {} /\ lost' = {}

LEMMA InPixels == \A bytes : In(bytes) \in SUBSET Pixels
BY DEF In

\* Short gaps only add to the bytes.
LEMMA JoinedHolds == \A bytes, gap : bytes \subseteq Joined(bytes, gap)
BY DEF Joined

\* A driver that compares with what it counts as sent, and sends all differences.
LEMMA CompareKeeps ==
    ASSUME GraphicInv, Compares, NEW region, NEW dark, ChangedWithin(dark, region),
           NEW sent \in SUBSET Pixels, Reaches(sent, dark, Buffer2),
           Buffer2' = (Buffer2 \ sent) \cup (dark \cap sent), Sends(sent, dark), UNCHANGED refresh
    PROVE  PictureKept(dark)
<1>1. Buffer2 = screen /\ refresh = {} /\ lost = {}
  BY DEF GraphicInv, SentKept
<1>2. screen = Buffer1
  BY <1>1 DEF GraphicInv, DisplayKept, CopiesTyped
<1>3. Reaches(sent, dark, Buffer1) /\ dark \in SUBSET Pixels
  BY <1>1, <1>2 DEF ChangedWithin
<1>4. /\ screen' \in SUBSET Pixels /\ lost' \in SUBSET Pixels
      /\ \A p \in Pixels \ (lost' \cup refresh') : p \in screen' <=> p \in dark
  BY <1>3, SendsKeeps DEF GraphicInv
<1>5. Buffer2' = screen' /\ lost' = {} /\ refresh' = {}
  BY <1>1 DEF Sends
<1> QED BY <1>4, <1>5 DEF PictureKept

-----------------------------------------------------------------------------
(* What the drivers send. *)

\* Division rises with what is divided.
LEMMA DivisionRises ==
    ASSUME NEW a \in Nat, NEW b \in Nat, NEW n \in Nat \ {0}, a <= b
    PROVE  a \div n \in Nat /\ b \div n \in Nat /\ a \div n <= b \div n
<1> DEFINE q == a \div n
           r == a % n
           s == b \div n
           t == b % n
<1>1. q \in Int /\ r \in 0..(n - 1) /\ a = n * q + r /\ q >= 0
  OBVIOUS
<1>2. s \in Int /\ t \in 0..(n - 1) /\ b = n * s + t /\ s >= 0
  OBVIOUS
<1> HIDE DEF q, r, s, t
<1>3. ASSUME s + 1 <= q PROVE FALSE
  <2>1. n * (s + 1) <= n * q /\ n * (s + 1) = n * s + n
    BY <1>1, <1>2, <1>3
  <2>2. n * s \in Int /\ n * q \in Int
    BY <1>1, <1>2
  <2> QED BY <1>1, <1>2, <2>1, <2>2
<1>4. q <= s
  BY <1>1, <1>2, <1>3
<1> QED BY <1>1, <1>2, <1>4 DEF q, s

\* The addresses of pixels.
LEMMA PixelNumbers ==
    \A p \in Pixels : p[1] \in 0..GROWS - 1 /\ p[2] \in 0..GCOLS - 1 /\ p[1] \in Nat /\ p[2] \in Nat
BY DEF Pixels, Grid

\* drv_T6_blit misses no difference: its rows begin and end with the bytes of the region.
LEMMA T6963Keeps ==
    ASSUME GraphicInv, NEW region, NEW dark, ChangedWithin(dark, region),
           graphic.driver = "T6963", T6963(dark, region)
    PROVE  PictureKept(dark)
<1> DEFINE Last(r) == (r * GCOLS + Max(Cols(region)) + BITS) \div BITS
           Changed(r) == {ByteOf(p) : p \in {q \in Differ(dark, Buffer2) : q[1] = r}}
                         \cap (((r * GCOLS + Min(Cols(region))) \div BITS)..Last(r))
           Noted(r) == Joined(Changed(r), 4) \cup Overshot(Changed(r), Last(r), 4)
           sent == In(UNION {Noted(r) : r \in Rows(region)})
<1>1. Buffer2' = (Buffer2 \ sent) \cup (dark \cap sent) /\ Sends(sent, dark) /\ UNCHANGED refresh
  BY DEF T6963
<1>2. Differ(dark, Buffer2) \subseteq region /\ region \in SUBSET Pixels
  BY DEF ChangedWithin, GraphicInv, SentKept, DisplayKept, CopiesTyped, Compares, Differ
<1>3. ASSUME NEW p \in Differ(dark, Buffer2) PROVE p \in sent
  <2> DEFINE r == p[1]
             lo == Min(Cols(region))
             hi == Max(Cols(region))
  <2>1. p \in region /\ p \in Pixels /\ r \in Rows(region) /\ r \in Nat /\ p[2] \in Nat
    BY <1>2, PixelNumbers DEF Rows
  <2>2. lo \in Nat /\ hi \in Nat /\ lo <= p[2] /\ p[2] <= hi
    BY <1>2, <2>1, RegionBounds
  <2>3. ByteOf(p) = (r * GCOLS + p[2]) \div BITS
    BY DEF ByteOf
  <2>4. ByteOf(p) \in Changed(r)
    <3> DEFINE base == r * GCOLS
    <3>1. base \in Nat
      BY <2>1, GraphicAssumption
    <3> HIDE DEF base, lo, hi, r
    <3>2. /\ (base + lo) \div BITS \in Nat
          /\ (base + p[2]) \div BITS \in Nat
          /\ (base + lo) \div BITS <= (base + p[2]) \div BITS
      <4>1. base + lo \in Nat /\ base + p[2] \in Nat /\ base + lo <= base + p[2] /\ BITS \in Nat \ {0}
        BY <2>1, <2>2, <3>1, GraphicAssumption
      <4> QED BY <4>1, DivisionRises
    <3>3. /\ (base + hi + BITS) \div BITS \in Nat
          /\ (base + p[2]) \div BITS <= (base + hi + BITS) \div BITS
      <4>1. base + hi + BITS \in Nat /\ base + p[2] \in Nat /\ base + p[2] <= base + hi + BITS
            /\ BITS \in Nat \ {0}
        BY <2>1, <2>2, <3>1, GraphicAssumption
      <4> QED BY <4>1, DivisionRises
    <3>4. ByteOf(p) \in ((base + lo) \div BITS)..((base + hi + BITS) \div BITS)
      BY <2>3, <3>2, <3>3 DEF base
    <3> QED BY <3>4 DEF base, lo, hi, r
  <2>5. ByteOf(p) \in Noted(r)
    <3> HIDE DEF Changed, Last
    <3> QED BY <2>4, JoinedHolds
  <2> HIDE DEF Noted
  <2>6. ByteOf(p) \in UNION {Noted(s) : s \in Rows(region)}
    BY <2>1, <2>5
  <2> QED BY <2>1, <2>6 DEF In
<1>4. sent \in SUBSET Pixels
  BY InPixels
<1> HIDE DEF sent
<1>5. Reaches(sent, dark, Buffer2)
  BY <1>3 DEF Reaches
<1>6. Compares
  BY DEF Compares
<1> QED BY <1>1, <1>4, <1>5, <1>6, CompareKeeps

\* drv_L7_blit misses none in the columns of the region.
LEMMA LPH7508Keeps ==
    ASSUME GraphicInv, NEW region, NEW dark, ChangedWithin(dark, region),
           graphic.driver = "LPH7508", LPH7508(dark, region)
    PROVE  PictureKept(dark)
<1> DEFINE Last(k) == k * SCOLS + Max(Cols(region))
           Changed(k) == Changes(dark, Buffer2) \cap (k * SCOLS + Min(Cols(region)))..Last(k)
           Noted(k) == Joined(Changed(k), 2) \cup Overshot(Changed(k), Last(k), 2)
           sent == In(UNION {Noted(k) : k \in Pages(region)})
<1>1. Buffer2' = (Buffer2 \ sent) \cup (dark \cap sent) /\ Sends(sent, dark) /\ UNCHANGED refresh
  BY DEF LPH7508
<1>2. Differ(dark, Buffer2) \subseteq region /\ region \in SUBSET Pixels
  BY DEF ChangedWithin, GraphicInv, SentKept, DisplayKept, CopiesTyped, Compares, Differ
<1>3. ASSUME NEW p \in Differ(dark, Buffer2) PROVE p \in sent
  <2> DEFINE k == p[1] \div BITS
             lo == Min(Cols(region))
             hi == Max(Cols(region))
  <2>1. p \in region /\ p \in Pixels /\ p[1] \in Nat /\ p[2] \in Nat
    BY <1>2, PixelNumbers
  <2>2. k \in Nat /\ k \in Pages(region)
    <3>1. k \in Nat
      BY <2>1, GraphicAssumption, DivisionRises
    <3> QED BY <2>1, <3>1 DEF Pages, Rows
  <2>3. lo \in Nat /\ hi \in Nat /\ lo <= p[2] /\ p[2] <= hi
    BY <1>2, <2>1, RegionBounds
  <2>4. ByteOf(p) = k * SCOLS + p[2]
    BY DEF ByteOf
  <2>5. ByteOf(p) \in Changed(k)
    <3> DEFINE base == k * SCOLS
    <3>1. base \in Nat
      BY <2>2, GraphicAssumption
    <3> HIDE DEF base, lo, hi, k
    <3>2. ByteOf(p) \in (base + lo)..(base + hi)
      BY <2>1, <2>3, <2>4, <3>1 DEF base
    <3>3. ByteOf(p) \in Changes(dark, Buffer2)
      BY <1>3 DEF Changes
    <3> QED BY <3>2, <3>3 DEF base, lo, hi, k
  <2>6. ByteOf(p) \in Noted(k)
    <3> HIDE DEF Changed, Last
    <3> QED BY <2>5, JoinedHolds
  <2> HIDE DEF Noted
  <2>7. ByteOf(p) \in UNION {Noted(s) : s \in Pages(region)}
    BY <2>2, <2>6
  <2> QED BY <2>1, <2>7 DEF In
<1>4. sent \in SUBSET Pixels
  BY InPixels
<1> HIDE DEF sent
<1>5. Reaches(sent, dark, Buffer2)
  BY <1>3 DEF Reaches
<1>6. Compares
  BY DEF Compares
<1> QED BY <1>1, <1>4, <1>5, <1>6, CompareKeeps

\* A driver that compares with its copy, and sends the differences in parts.
LEMMA PartsKeep ==
    ASSUME GraphicInv, ~Compares, NEW dark \in SUBSET Pixels,
           NEW sent \in SUBSET Pixels, NEW parts \in SUBSET SUBSET sent,
           Reaches(sent, dark, Buffer1), Tries(sent, parts, dark), UNCHANGED <<Buffer2, refresh>>
    PROVE  PictureKept(dark)
<1>1. CopiesTyped /\ DisplayKept
  BY DEF GraphicInv
<1>2. \A p \in Pixels \ (lost \cup sent \cup refresh) : p \in screen <=> p \in dark
  BY <1>1 DEF DisplayKept, Reaches, Differ
<1>3. /\ screen' \in SUBSET Pixels /\ lost' \in SUBSET Pixels
      /\ \A p \in Pixels \ (lost' \cup refresh) : p \in screen' <=> p \in dark
  BY <1>1, <1>2, TriesKeeps
<1> QED BY <1>1, <1>3 DEF PictureKept, CopiesTyped

\* drv_GLCD2USB_blit: what changed, whichever reports of it fail.
LEMMA GLCD2USBKeeps ==
    ASSUME GraphicInv, NEW region, NEW dark, ChangedWithin(dark, region),
           graphic.driver = "GLCD2USB", GLCD2USB(dark, region)
    PROVE  PictureKept(dark)
<1> DEFINE changed == Changes(dark, Buffer1)
           gaps == IF changed # {} /\ Min(changed) <= 4 THEN 0..Min(changed) ELSE {}
           sent == Joined(changed, 4) \cup gaps
           parts == {In({c \in sent : (b..c) \cup (c..b) \subseteq sent}) : b \in sent}
<1>1. Tries(In(sent), parts, dark) /\ UNCHANGED <<Buffer2, refresh>>
  BY DEF GLCD2USB
<1>2. changed \subseteq sent
  BY JoinedHolds
<1>3. Differ(dark, Buffer1) \subseteq Pixels /\ dark \in SUBSET Pixels
  BY DEF ChangedWithin, GraphicInv, CopiesTyped, Differ
<1> HIDE DEF sent
<1>4. Reaches(In(sent), dark, Buffer1)
  BY <1>2, <1>3 DEF Reaches, In, Changes
<1>5. parts \in SUBSET SUBSET In(sent) /\ In(sent) \in SUBSET Pixels
  BY DEF In
<1>6. ~Compares
  BY DEF Compares
<1> HIDE DEF parts
<1> QED BY <1>1, <1>3, <1>4, <1>5, <1>6, PartsKeep

\* drv_dpf_blit: the rectangle holds what changed.
LEMMA dpfKeeps ==
    ASSUME GraphicInv, NEW region, NEW dark, ChangedWithin(dark, region),
           graphic.driver = "dpf", dpf(dark, region)
    PROVE  PictureKept(dark)
<1> DEFINE changed == Differ(dark, Buffer1)
           around == IF changed = {} THEN {}
                     ELSE (Min(Rows(changed))..Max(Rows(changed))) \X (Min(Cols(changed))..Max(Cols(changed)))
<1>1. Tries(around, {around}, dark) /\ UNCHANGED <<Buffer2, refresh>>
  BY DEF dpf
<1>2. changed \in SUBSET Pixels /\ dark \in SUBSET Pixels
  BY DEF ChangedWithin, GraphicInv, CopiesTyped, Differ
<1>3. around \in SUBSET Pixels /\ changed \subseteq around
  <2>1. CASE changed = {}
    BY <2>1
  <2>2. CASE changed # {}
    <3> HIDE DEF changed
    <3>1. /\ Min(Rows(changed)) \in 0..GROWS - 1 /\ Max(Rows(changed)) \in 0..GROWS - 1
          /\ Min(Cols(changed)) \in 0..GCOLS - 1 /\ Max(Cols(changed)) \in 0..GCOLS - 1
          /\ \A p \in changed : /\ Min(Rows(changed)) <= p[1] /\ p[1] <= Max(Rows(changed))
                                /\ Min(Cols(changed)) <= p[2] /\ p[2] <= Max(Cols(changed))
      BY <1>2, <2>2, RegionBounds
    <3>2. GROWS - 1 \in Int /\ GCOLS - 1 \in Int
      BY GraphicAssumption
    <3>3. /\ (Min(Rows(changed))..Max(Rows(changed))) \subseteq 0..GROWS - 1
          /\ (Min(Cols(changed))..Max(Cols(changed))) \subseteq 0..GCOLS - 1
      BY <3>1, <3>2
    <3>4. around \in SUBSET Pixels
      BY <2>2, <3>3 DEF Pixels, Grid
    <3>5. ASSUME NEW p \in changed PROVE p \in around
      <4>1. p \in Pixels
        BY <1>2
      <4>2. p = <<p[1], p[2]>> /\ p[1] \in Nat /\ p[2] \in Nat
        BY <4>1 DEF Pixels, Grid
      <4>3. p[1] \in Min(Rows(changed))..Max(Rows(changed)) /\ p[2] \in Min(Cols(changed))..Max(Cols(changed))
        BY <3>1, <4>2
      <4> QED BY <2>2, <4>2, <4>3
    <3> QED BY <3>4, <3>5
  <2> QED BY <2>1, <2>2
<1>4. Reaches(around, dark, Buffer1) /\ {around} \in SUBSET SUBSET around
  BY <1>3 DEF Reaches
<1>5. ~Compares
  BY DEF Compares
<1> HIDE DEF around
<1> QED BY <1>1, <1>2, <1>3, <1>4, <1>5, PartsKeep

\* drv_EA232graphic_blit: all that changed is in the region.
LEMMA EA232graphicKeeps ==
    ASSUME GraphicInv, NEW region, NEW dark, ChangedWithin(dark, region),
           graphic.driver = "EA232graphic", EA232graphic(dark, region)
    PROVE  PictureKept(dark)
<1>1. Reaches(region, dark, Buffer1) /\ {region} \in SUBSET SUBSET region
  BY DEF Reaches, ChangedWithin
<1>2. ~Compares
  BY DEF Compares
<1> QED BY <1>1, <1>2, PartsKeep DEF EA232graphic, ChangedWithin

\* drv_MOGX_blit: everything is sent.
LEMMA WholePictureKeeps ==
    ASSUME GraphicInv, NEW region, NEW dark, ChangedWithin(dark, region),
           graphic.driver = "MatrixOrbitalGX", WholePicture(dark, region)
    PROVE  PictureKept(dark)
<1>1. Reaches(Pixels, dark, Buffer1) /\ {Pixels} \in SUBSET SUBSET Pixels
  BY DEF Reaches, ChangedWithin
<1>2. ~Compares
  BY DEF Compares
<1> QED BY <1>1, <1>2, PartsKeep DEF WholePicture, ChangedWithin

\* A driver that waits for its timer with all that changed, and with what waits already.
LEMMA WaitingKeeps ==
    ASSUME GraphicInv, ~Compares, NEW region, NEW dark, ChangedWithin(dark, region),
           refresh' \in SUBSET Pixels, refresh \subseteq refresh', Differ(dark, Buffer1) \subseteq refresh',
           UNCHANGED <<screen, lost, Buffer2>>
    PROVE  PictureKept(dark)
<1>1. \A p \in Pixels \ (lost \cup refresh') : p \in screen <=> p \in dark
  BY DEF GraphicInv, DisplayKept, Differ
<1> QED BY <1>1 DEF PictureKept, GraphicInv, CopiesTyped

\* drv_MDM166A_blit: the columns reach from the first to the last that changed or waits.
LEMMA MDM166AKeeps ==
    ASSUME GraphicInv, NEW region, NEW dark, ChangedWithin(dark, region),
           graphic.driver = "mdm166a", MDM166A(dark, region)
    PROVE  PictureKept(dark)
<1> DEFINE differing == Differ(dark, Buffer1)
           changed == Cols(differing)
           first == IF refresh = {} THEN Max(Cols(region)) - Min(Cols(region)) + 1 ELSE Min(Cols(refresh))
           last == IF refresh = {} THEN -1 ELSE Max(Cols(refresh))
<1>1. /\ refresh' = IF changed = {} THEN refresh
                    ELSE {p \in Pixels : p[2] \in Min(changed \cup {first})..Max(changed \cup {last})}
      /\ UNCHANGED <<screen, lost, Buffer2>>
  BY DEF MDM166A
<1>2. differing \in SUBSET Pixels /\ refresh \in SUBSET Pixels /\ region \in SUBSET Pixels /\ region # {}
  BY DEF ChangedWithin, GraphicInv, CopiesTyped, Differ
<1>3. \A p \in differing : p[2] \in changed
  BY DEF Cols
<1>4. changed \subseteq 0..GCOLS - 1
  BY <1>2 DEF Cols, Pixels, Grid
<1>5. GCOLS \in Nat \ {0}
  BY GraphicAssumption
<1>6. first \in 0..GCOLS /\ last \in -1..GCOLS
  <2>1. Min(Cols(region)) \in 0..GCOLS - 1 /\ Max(Cols(region)) \in 0..GCOLS - 1
        /\ Min(Cols(region)) <= Max(Cols(region))
    <3>1. PICK p \in region : TRUE
      BY <1>2
    <3>2. p[2] \in Nat
      BY <1>2, PixelNumbers
    <3>3. /\ Min(Cols(region)) \in 0..GCOLS - 1 /\ Max(Cols(region)) \in 0..GCOLS - 1
          /\ Min(Cols(region)) <= p[2] /\ p[2] <= Max(Cols(region))
      BY <1>2, RegionBounds
    <3> QED BY <1>5, <3>2, <3>3
  <2>2. CASE refresh = {}
    BY <1>5, <2>1, <2>2
  <2>3. CASE refresh # {}
    <3>1. Min(Cols(refresh)) \in 0..GCOLS - 1 /\ Max(Cols(refresh)) \in 0..GCOLS - 1
      BY <1>2, <2>3, RegionBounds
    <3> QED BY <1>5, <2>3, <3>1
  <2> QED BY <2>2, <2>3
<1>7. \A p \in refresh : p[2] \in Int /\ first <= p[2] /\ p[2] <= last
  <2> SUFFICES ASSUME NEW p \in refresh PROVE p[2] \in Int /\ first <= p[2] /\ p[2] <= last
    OBVIOUS
  <2>1. refresh # {}
    OBVIOUS
  <2>2. p[2] \in Int /\ Min(Cols(refresh)) <= p[2] /\ p[2] <= Max(Cols(refresh))
    BY <1>2, <2>1, RegionBounds, PixelNumbers
  <2> QED BY <2>1, <2>2
<1> HIDE DEF first, last, changed
<1>8. CASE changed = {}
  <2>1. differing = {}
    BY <1>3, <1>8
  <2> QED BY <1>1, <1>2, <1>8, <2>1, WaitingKeeps DEF Compares
<1>9. CASE changed # {}
  <2> DEFINE A == changed \cup {first}
             B == changed \cup {last}
  <2>1. A \in SUBSET (-1..GCOLS) /\ A # {} /\ B \in SUBSET (-1..GCOLS) /\ B # {}
    <3>1. \A k \in 0..GCOLS - 1 : k \in -1..GCOLS
      BY <1>5
    <3>2. changed \subseteq -1..GCOLS
      BY <1>4, <3>1
    <3>3. first \in -1..GCOLS
      BY <1>5, <1>6
    <3> QED BY <1>6, <3>2, <3>3
  <2>2. -1 \in Int /\ GCOLS \in Int
    BY <1>5
  <2>3. /\ first \in A /\ last \in B /\ changed \subseteq A /\ changed \subseteq B
    OBVIOUS
  <2>4. refresh' = {p \in Pixels : p[2] \in Min(A)..Max(B)}
    BY <1>1, <1>9
  <2> HIDE DEF A, B
  <2>5. /\ Min(A) \in A /\ \A k \in A : Min(A) <= k
        /\ Max(B) \in B /\ \A k \in B : k <= Max(B)
    <3> DEFINE least == -1
    <3>1. least \in Int /\ A \in SUBSET (least..GCOLS) /\ B \in SUBSET (least..GCOLS)
      BY <2>1
    <3> HIDE DEF least
    <3> QED BY <2>1, <2>2, <3>1, MinMax
  <2>6. Min(A) \in Int /\ Max(B) \in Int /\ first \in Int /\ last \in Int
    <3>1. \A k \in -1..GCOLS : k \in Int
      BY <1>5
    <3>2. \A k \in 0..GCOLS : k \in Int
      BY <1>5
    <3>3. Min(A) \in -1..GCOLS /\ Max(B) \in -1..GCOLS
      BY <2>1, <2>5
    <3> QED BY <1>6, <3>1, <3>2, <3>3
  <2>7. Min(A) <= first /\ last <= Max(B)
    BY <2>3, <2>5
  <2>8. ASSUME NEW p \in refresh PROVE p \in refresh'
    <3>1. p[2] \in Min(A)..Max(B)
      BY <1>7, <2>6, <2>7
    <3> QED BY <1>2, <2>4, <3>1
  <2>9. ASSUME NEW p \in differing PROVE p \in refresh'
    <3>1. p[2] \in changed /\ p[2] \in Int
      BY <1>2, <1>3, PixelNumbers
    <3>2. Min(A) <= p[2] /\ p[2] <= Max(B)
      BY <2>3, <2>5, <3>1
    <3> QED BY <1>2, <2>4, <2>6, <3>1, <3>2
  <2>10. refresh' \in SUBSET Pixels
    BY <2>4
  <2> QED BY <1>1, <2>8, <2>9, <2>10, WaitingKeeps DEF Compares
<1> QED BY <1>8, <1>9

\* drv_pLG_blit and drv_SamsungSPF_blit wait with the whole picture.
LEMMA WaitingPictureKeeps ==
    ASSUME GraphicInv, NEW region, NEW dark, ChangedWithin(dark, region),
           graphic.driver \in {"picoLCDGraphic", "SamsungSPF"}, WaitingPicture(dark, region)
    PROVE  PictureKept(dark)
<1>1. refresh \in SUBSET Pixels /\ Differ(dark, Buffer1) \in SUBSET Pixels /\ ~Compares
  BY DEF ChangedWithin, GraphicInv, CopiesTyped, Differ, Compares
<1>2. dark = Buffer1 => Differ(dark, Buffer1) = {}
  BY DEF Differ
<1>3. refresh' \in {Pixels, refresh} /\ (refresh' = refresh => dark = Buffer1 \/ refresh = Pixels)
  BY DEF WaitingPicture
<1>4. refresh' \in SUBSET Pixels /\ refresh \subseteq refresh' /\ Differ(dark, Buffer1) \subseteq refresh'
  BY <1>1, <1>2, <1>3
<1>5. UNCHANGED <<screen, lost, Buffer2>>
  BY DEF WaitingPicture
<1> QED BY <1>1, <1>4, <1>5, WaitingKeeps

-----------------------------------------------------------------------------
(* The steps. *)

LEMMA ReachedPixels == Reached \subseteq Pixels
<1>1. \A r \in 0..GROWS - 1 - 1 : r \in 0..GROWS - 1
  BY GraphicAssumption
<1> QED BY <1>1 DEF Reached, Pixels, Grid

LEMMA GraphicInitial == GraphicInit => GraphicInv
<1> SUFFICES ASSUME GraphicInit PROVE GraphicInv
  OBVIOUS
<1>1. \A l \in 0..Layers - 1 : FB[l] = [p \in Pixels |-> "none"]
  BY DEF GraphicInit
<1>2. CopiesTyped
  BY <1>1 DEF GraphicInit, CopiesTyped, FullLayers
<1>3. ASSUME NEW p \in Reached PROVE ~Black(FB, p)
  <2>1. p \in Pixels
    BY <1>3, ReachedPixels
  <2>2. ~Covered(FB, p)
    BY <1>1, <2>1 DEF Covered
  <2> QED BY <2>2, BlackCovered
<1>4. CopyKept
  BY <1>3 DEF GraphicInit, CopyKept
<1>5. DisplayKept /\ SentKept
  BY DEF GraphicInit, DisplayKept, SentKept
<1> QED BY <1>2, <1>4, <1>5 DEF GraphicInv

\* The driver's blit of a new copy.
LEMMA BlitPictureKeeps ==
    ASSUME GraphicInv, NEW layers, NEW region \in SUBSET Pixels, region # {}, BlitPicture(layers, region)
    PROVE  /\ Buffer1' = (Buffer1 \ region) \cup {p \in region : p \in Reached /\ Black(layers, p)}
           /\ PictureKept(Buffer1')
<1>1. PICK dark \in {(Buffer1 \ region) \cup {p \in region : p \in Reached /\ Black(layers, p)}} :
        /\ Buffer1' = dark
        /\ \/ graphic.driver = "T6963" /\ T6963(dark, region)
           \/ graphic.driver = "LPH7508" /\ LPH7508(dark, region)
           \/ graphic.driver = "GLCD2USB" /\ GLCD2USB(dark, region)
           \/ graphic.driver = "dpf" /\ dpf(dark, region)
           \/ graphic.driver = "EA232graphic" /\ EA232graphic(dark, region)
           \/ graphic.driver = "MatrixOrbitalGX" /\ WholePicture(dark, region)
           \/ graphic.driver = "mdm166a" /\ MDM166A(dark, region)
           \/ graphic.driver \in {"picoLCDGraphic", "SamsungSPF"} /\ WaitingPicture(dark, region)
  BY DEF BlitPicture
<1>2. ChangedWithin(dark, region)
  <2>1. dark = (Buffer1 \ region) \cup {p \in region : p \in Reached /\ Black(layers, p)}
    BY <1>1
  <2>2. Buffer1 \in SUBSET Pixels
    BY DEF GraphicInv, CopiesTyped
  <2>3. dark \in SUBSET Pixels /\ Differ(dark, Buffer1) \subseteq region
    BY <2>1, <2>2 DEF Differ
  <2> QED BY <2>3 DEF ChangedWithin
<1>3. PictureKept(dark)
  <2>1. CASE graphic.driver = "T6963" /\ T6963(dark, region)
    BY <1>2, <2>1, T6963Keeps
  <2>2. CASE graphic.driver = "LPH7508" /\ LPH7508(dark, region)
    BY <1>2, <2>2, LPH7508Keeps
  <2>3. CASE graphic.driver = "GLCD2USB" /\ GLCD2USB(dark, region)
    BY <1>2, <2>3, GLCD2USBKeeps
  <2>4. CASE graphic.driver = "dpf" /\ dpf(dark, region)
    BY <1>2, <2>4, dpfKeeps
  <2>5. CASE graphic.driver = "EA232graphic" /\ EA232graphic(dark, region)
    BY <1>2, <2>5, EA232graphicKeeps
  <2>6. CASE graphic.driver = "MatrixOrbitalGX" /\ WholePicture(dark, region)
    BY <1>2, <2>6, WholePictureKeeps
  <2>7. CASE graphic.driver = "mdm166a" /\ MDM166A(dark, region)
    BY <1>2, <2>7, MDM166AKeeps
  <2>8. CASE graphic.driver \in {"picoLCDGraphic", "SamsungSPF"} /\ WaitingPicture(dark, region)
    BY <1>2, <2>8, WaitingPictureKeeps
  <2> QED BY <1>1, <2>1, <2>2, <2>3, <2>4, <2>5, <2>6, <2>7, <2>8
<1>4. dark = Buffer1' /\ dark = (Buffer1 \ region) \cup {p \in region : p \in Reached /\ Black(layers, p)}
  BY <1>1
<1> QED BY <1>3, <1>4

\* Outside of the widget's window, the picture is what it was.
LEMMA DrawWidgetKeeps ==
    ASSUME GraphicInv, NEW w, NEW what, DrawWidget(w, what)
    PROVE  GraphicInv'
<1>1. FB' = Drawn(w, what) /\ graphic' = graphic
  BY DEF DrawWidget
<1>2. FullLayers(FB)' /\ \A l \in 0..Layers - 1, p \in Pixels \ Window(w) : FB'[l][p] = FB[l][p]
  BY <1>1, DrawnElsewhere DEF GraphicInv, CopiesTyped, FullLayers
<1>3. \A p \in Pixels \ Window(w) : Black(FB', p) <=> Black(FB, p)
  BY <1>2, BlackKept
<1>4. Reached' = Reached /\ (Compares' <=> Compares)
  BY <1>1 DEF Reached, Compares
<1>5. Buffer1 = {p \in Reached : Black(FB, p)} /\ Reached \subseteq Pixels
  BY ReachedPixels DEF GraphicInv, CopyKept
<1>6. CASE Window(w) = {}
  <2>1. UNCHANGED <<screen, Buffer1, Buffer2, refresh, lost>>
    BY <1>6 DEF DrawWidget
  <2>2. CopyKept'
    <3>1. {p \in Reached : Black(FB', p)} = {p \in Reached : Black(FB, p)}
      BY <1>3, <1>5, <1>6
    <3> QED BY <1>4, <1>5, <2>1, <3>1 DEF CopyKept
  <2>3. CopiesTyped' /\ DisplayKept' /\ SentKept'
    BY <1>2, <1>4, <2>1 DEF GraphicInv, CopiesTyped, DisplayKept, SentKept
  <2> QED BY <2>2, <2>3 DEF GraphicInv
<1>7. CASE Window(w) # {}
  <2>1. Window(w) \in SUBSET Pixels
    BY DEF Window
  <2>2. BlitPicture(FB', Window(w))
    BY <1>7 DEF DrawWidget
  <2>3. /\ Buffer1' = (Buffer1 \ Window(w)) \cup {p \in Window(w) : p \in Reached /\ Black(FB', p)}
        /\ PictureKept(Buffer1')
    BY <1>7, <2>1, <2>2, BlitPictureKeeps
  <2>4. CopyKept'
    <3>1. Buffer1' = {p \in Reached : Black(FB', p)}
      BY <1>3, <1>5, <2>1, <2>3
    <3> QED BY <1>4, <3>1 DEF CopyKept
  <2>5. Buffer1' \in SUBSET Pixels
    BY <1>5, <2>1, <2>3
  <2>6. CopiesTyped' /\ DisplayKept' /\ SentKept'
    BY <1>2, <1>4, <2>3, <2>5 DEF PictureKept, CopiesTyped, DisplayKept, SentKept
  <2> QED BY <2>4, <2>6 DEF GraphicInv
<1> QED BY <1>6, <1>7

\* The timer sends what waits, from the copy as it is by now.
LEMMA RefreshKeeps ==
    ASSUME GraphicInv, Refresh
    PROVE  GraphicInv'
<1>1. /\ refresh # {} /\ refresh' = {} /\ Tries(refresh, {refresh}, Buffer1)
      /\ UNCHANGED <<graphic, FB, Buffer1, Buffer2>>
  BY DEF Refresh
<1>2. CopiesTyped /\ DisplayKept
  BY DEF GraphicInv
<1>3. /\ refresh \in SUBSET Pixels /\ Buffer1 \in SUBSET Pixels
      /\ {refresh} \in SUBSET SUBSET refresh
      /\ \A p \in Pixels \ (lost \cup refresh \cup {}) : p \in screen <=> p \in Buffer1
  BY <1>2 DEF CopiesTyped, DisplayKept
<1>4. /\ screen' \in SUBSET Pixels /\ lost' \in SUBSET Pixels
      /\ \A p \in Pixels \ (lost' \cup {}) : p \in screen' <=> p \in Buffer1
  <2> DEFINE parts == {refresh}
             W == {}
  <2>1. /\ parts \in SUBSET SUBSET refresh /\ Tries(refresh, parts, Buffer1)
        /\ \A p \in Pixels \ (lost \cup refresh \cup W) : p \in screen <=> p \in Buffer1
    BY <1>1, <1>3
  <2> HIDE DEF parts, W
  <2>2. /\ screen' \in SUBSET Pixels /\ lost' \in SUBSET Pixels
        /\ \A p \in Pixels \ (lost' \cup W) : p \in screen' <=> p \in Buffer1
    BY <1>2, <1>3, <2>1, TriesKeeps
  <2> QED BY <2>2 DEF W
<1>5. CopiesTyped' /\ DisplayKept'
  BY <1>1, <1>2, <1>4 DEF CopiesTyped, DisplayKept, FullLayers
<1>6. CopyKept'
  BY <1>1 DEF GraphicInv, CopyKept, Reached
<1>7. SentKept'
  BY <1>1 DEF GraphicInv, SentKept, Compares
<1> QED BY <1>5, <1>6, <1>7 DEF GraphicInv

LEMMA GraphicStep == GraphicInv /\ [GraphicNext]_graphicVars => GraphicInv'
<1> SUFFICES ASSUME GraphicInv, [GraphicNext]_graphicVars PROVE GraphicInv'
  OBVIOUS
<1>1. ASSUME NEW w \in graphic.widgets, NEW what \in Whats(w), DrawWidget(w, what) PROVE GraphicInv'
  BY <1>1, DrawWidgetKeeps
<1>2. CASE Refresh
  BY <1>2, RefreshKeeps
<1>3. CASE UNCHANGED graphicVars
  BY <1>3 DEF graphicVars, GraphicInv, CopiesTyped, FullLayers, CopyKept, DisplayKept, SentKept, Reached, Compares
<1> QED BY <1>1, <1>2, <1>3 DEF GraphicNext

THEOREM GraphicInductive == GraphicSpec => []GraphicInv
<1>1. GraphicInit => GraphicInv
  BY GraphicInitial
<1>2. GraphicInv /\ [GraphicNext]_graphicVars => GraphicInv'
  BY GraphicStep
<1> QED BY <1>1, <1>2, PTL DEF GraphicSpec

-----------------------------------------------------------------------------
(* The property. *)

\* Whenever no refresh is due, the display shows the picture of the layers, but where a
\* transfer was lost, whatever drv_generic_graphic and the driver left out of a blit.
THEOREM PictureOnDisplay == GraphicSpec => []PixelsShown
<1>1. GraphicInv => PixelsShown
  <2> SUFFICES ASSUME GraphicInv, refresh = {}, NEW p \in Reached \ lost
               PROVE  p \in screen <=> Covered(FB, p)
    BY DEF PixelsShown, Shown, Covered
  <2>1. p \in Pixels \ (lost \cup refresh)
    BY ReachedPixels
  <2>2. p \in screen <=> p \in Buffer1
    BY <2>1 DEF GraphicInv, DisplayKept
  <2>3. p \in Buffer1 <=> Black(FB, p)
    BY DEF GraphicInv, CopyKept
  <2> QED BY <2>2, <2>3, BlackCovered
<1> QED BY <1>1, GraphicInductive, PTL

-----------------------------------------------------------------------------
(* TEXT DISPLAYS *)

-----------------------------------------------------------------------------
(* The invariant. *)

Addresses == 0..DROWS * DCOLS - 1
SegmentRecord == [val1 : Int, val2 : Int, dir : SUBSET AllDirs,
                  style : {"none", "all", "first", "last", "hollow"}, used : BOOLEAN, ascii : Int]

\* The buffers are as large as the layout and the display, and the fixed segments stay.
TextTypes ==
    /\ drv \in TextSetups
    /\ LROWS \in Nat /\ LROWS >= DROWS /\ LCOLS \in Nat /\ LCOLS >= DCOLS
    /\ DOMAIN LayoutFB = Cells(LROWS, LCOLS) /\ DOMAIN BarFB = Cells(LROWS, LCOLS)
    /\ DOMAIN DisplayFB = Addresses /\ DOMAIN device = Addresses
    /\ glyphs = [c \in Definable(drv) |-> glyphs[c]]
    /\ DOMAIN icon = drv.icons
    /\ DOMAIN drawn = drv.texts \cup drv.icons \cup drv.bars

\* What a bar left in a cell.
BarRecord == [val1 : Int, val2 : Int, dir : SUBSET AllDirs, style : {"none", "all", "first", "last", "hollow"}]
InPlace(bars) ==
    \A cell \in DOMAIN bars :
        bars[cell] \in BarRecord /\ (bars[cell].dir # {} => \E w \in drv.bars : cell \in AreaOfBar(w))
BarsInPlace ==
    /\ InPlace(BarFB)
    /\ Segment \in Seq(SegmentRecord) /\ Len(Segment) >= fSegment

\* The chars that are reserved for icons.
IconChars(setup) == setup.CHAR0 + setup.CHARS - setup.ICONS..setup.CHAR0 + setup.CHARS - 1

\* Icons have got different chars, the last ones first.
CharsGiven ==
    /\ IconsGiven <= drv.ICONS
    /\ \A w \in drv.icons : icon[w].ascii \in {-2, -1} \cup (drv.CHAR0 + drv.CHARS - IconsGiven..drv.CHAR0 + drv.CHARS - 1)
    /\ \A v, w \in drv.icons : icon[v].ascii = icon[w].ascii /\ icon[v].ascii >= 0 => v = w

\* The display knows their bitmaps.
BitmapsKnown ==
    \A w \in drv.icons : icon[w].prvmap # "none" =>
        icon[w].ascii >= 0 /\ glyphs[icon[w].ascii] = <<"icon", icon[w].prvmap>>
IconsApart == CharsGiven /\ BitmapsKnown

\* The layout has what texts and icons drew last, and nothing else where they may draw.
TextLaid(w, fb, what) ==
    /\ \A i \in DOMAIN what :
          /\ <<w.row, w.col + i - 1>> \in AreaOfText(w) \cap DOMAIN fb
          /\ fb[<<w.row, w.col + i - 1>>] = what[i]
    /\ \A cell \in AreaOfText(w) \cap DOMAIN fb : fb[cell] \in Written(drv)
IconLaid(w, fb, given, what) ==
    /\ \A cell \in AreaOfIcon(w) \cap DOMAIN fb : fb[cell] = Blank \/ (given.ascii >= 0 /\ fb[cell] = given.ascii)
    /\ what # Undrawn =>
          /\ <<w.row, w.col>> \in DOMAIN fb
          /\ \/ what = <<"blank">> /\ fb[<<w.row, w.col>>] = Blank
             \/ /\ what = <<given.prvmap>> /\ given.prvmap \notin {"none", "blank"}
                /\ given.ascii >= 0 /\ fb[<<w.row, w.col>>] = given.ascii
LaidOut ==
    /\ \A w \in drv.texts : TextLaid(w, LayoutFB, drawn[w])
    /\ \A w \in drv.icons : IconLaid(w, LayoutFB, icon[w], drawn[w])

\* The display has what the layout has, in the cells of texts and icons, and the buffer of
\* what is shown knows, unless it was made wrong so that something is sent again.
Own == (UNION {AreaOfText(w) : w \in drv.texts}) \cup (UNION {AreaOfIcon(w) : w \in drv.icons})
AsLaidOut(cell, fb, sentFB, shown, looks) ==
    /\ shown[Address(cell)].char = fb[cell]
    /\ sentFB[Address(cell)] \in {fb[cell]} \cup Complements(drv)
    /\ drv.INVALIDATE => shown[Address(cell)].look = LookOf(fb[cell], looks)
OnTheDisplay ==
    \A cell \in Own \cap Cells(DROWS, DCOLS) : AsLaidOut(cell, LayoutFB, DisplayFB, device, glyphs)

TextInv == TextTypes /\ BarsInPlace /\ IconsApart /\ LaidOut /\ OnTheDisplay

-----------------------------------------------------------------------------
(* Numbers. *)

\* The number of a cell, row by row, has the cell's row and column.
LEMMA NumberOfCell ==
    ASSUME NEW rows \in Nat, NEW cols \in Nat \ {0}, NEW cell \in Cells(rows, cols)
    PROVE  /\ cell[1] * cols + cell[2] \in 0..rows * cols - 1
           /\ (cell[1] * cols + cell[2]) \div cols = cell[1]
           /\ (cell[1] * cols + cell[2]) % cols = cell[2]
<1> DEFINE k == cell[1] * cols + cell[2]
<1>1. cell[1] \in 0..rows - 1 /\ cell[2] \in 0..cols - 1
  BY DEF Cells
<1>2. (cell[1] + 1) * cols <= rows * cols
  BY <1>1, Product
<1>3. (cell[1] + 1) * cols = cell[1] * cols + cols /\ cell[1] * cols \in Nat /\ rows * cols \in Nat
  BY <1>1
<1>4. k \in 0..rows * cols - 1 /\ k \in Nat
  BY <1>1, <1>2, <1>3
<1> HIDE DEF k
<1>5. k \div cols \in Nat /\ k % cols \in 0..cols - 1 /\ k = cols * (k \div cols) + (k % cols)
  BY <1>4
<1>6. cols * (k \div cols) = (k \div cols) * cols
  BY <1>5
<1>7. cell[1] \in Nat /\ (k \div cols) * cols + (k % cols) = cell[1] * cols + cell[2]
  BY <1>1, <1>5, <1>6 DEF k
<1>8. PICK q \in Nat, r \in 0..cols - 1 : q = k \div cols /\ r = k % cols
  BY <1>5
<1>9. PICK a \in Nat, b \in 0..cols - 1 : a = cell[1] /\ b = cell[2]
  BY <1>1
<1>10. q * cols + r = a * cols + b
  BY <1>7, <1>8, <1>9
<1>11. q = a /\ r = b
  BY <1>10, DivisionUnique
<1> QED BY <1>4, <1>8, <1>9, <1>11 DEF k

\* And every number is that of a cell.
LEMMA CellOfNumber ==
    ASSUME NEW rows \in Nat, NEW cols \in Nat \ {0}, NEW k \in 0..rows * cols - 1
    PROVE  /\ <<k \div cols, k % cols>> \in Cells(rows, cols)
           /\ (k \div cols) * cols + (k % cols) = k
<1>1. k \in Nat /\ k < rows * cols
  <2>1. rows * cols \in Nat
    OBVIOUS
  <2> QED BY <2>1
<1>2. k \div cols \in Nat /\ k % cols \in 0..cols - 1 /\ k = cols * (k \div cols) + (k % cols)
  BY <1>1
<1>3. cols * (k \div cols) = (k \div cols) * cols
  BY <1>2
<1>4. ASSUME rows <= k \div cols PROVE FALSE
  <2>1. rows * cols <= (k \div cols) * cols /\ rows * cols \in Nat
    BY <1>2, <1>4, Product
  <2> QED BY <1>1, <1>2, <1>3, <2>1
<1>5. k \div cols \in 0..rows - 1
  BY <1>2, <1>4
<1> QED BY <1>2, <1>3, <1>5 DEF Cells

-----------------------------------------------------------------------------
(* The buffers. *)

\* What the assumption says of the driver that is in use.
LEMMA OfSetup ==
    ASSUME NEW setup \in TextSetups
    PROVE  /\ setup.CHARS \in Nat /\ setup.CHAR0 \in Nat /\ setup.ICONS \in 0..setup.CHARS
           /\ setup.XRES \in Nat /\ setup.YRES \in Nat
           /\ setup.fixed \in Seq([val1 : Nat, val2 : Nat, ascii : Nat])
           /\ \A w \in setup.texts \cup setup.icons \cup setup.bars : w.row \in Nat /\ w.col \in Nat
           /\ \A w \in setup.texts : \A text \in w.texts : text \in Seq(Nat)
           /\ \A w \in setup.icons : {"none", "blank"} \cap w.maps = {}
           /\ \A w \in setup.bars : w.len \in Nat /\ w.dir \in AllDirs /\ w.style \in BOOLEAN /\ w.vals \subseteq Nat
           /\ IsFiniteSet(setup.icons)
BY SetupsAssumption

LEMMA Apart ==
    ASSUME NEW setup \in TextSetups
    PROVE  /\ \A v \in setup.texts, w \in setup.texts : v # w => AreaOfText(v) \cap AreaOfText(w) = {}
           /\ \A v \in setup.icons, w \in setup.icons : v # w => AreaOfIcon(v) \cap AreaOfIcon(w) = {}
           /\ \A v \in setup.texts, w \in setup.icons : v # w /\ AreaOfText(v) \cap AreaOfIcon(w) = {}
           /\ \A v \in setup.texts, w \in setup.bars : v # w /\ AreaOfText(v) \cap AreaOfBar(w) = {}
           /\ \A v \in setup.icons, w \in setup.bars : v # w /\ AreaOfIcon(v) \cap AreaOfBar(w) = {}
BY SetupsAssumption

LEMMA CharsApart ==
    ASSUME NEW setup \in TextSetups
    PROVE  /\ Written(setup) \cap Definable(setup) = {}
           /\ Complements(setup) \cap Written(setup) = {}
           /\ Complements(setup) \cap Definable(setup) = {}
BY SetupsAssumption

\* A buffer that grows keeps what it has.
Grown(grown, fb, new) ==
    /\ \A cell \in Cells(LROWS, LCOLS) : cell \in DOMAIN grown /\ grown[cell] = fb[cell]
    /\ \A cell \in DOMAIN grown : cell \notin Cells(LROWS, LCOLS) => grown[cell] = new
LEMMA ResizedKeeps ==
    ASSUME TextTypes, NEW fb, DOMAIN fb = Cells(LROWS, LCOLS), NEW rows \in Nat, NEW cols \in Nat, NEW new,
           NEW grown, grown = Resized(fb, rows, cols, new)
    PROVE  DOMAIN grown = Cells(Max({rows, LROWS}), Max({cols, LCOLS})) /\ Grown(grown, fb, new)
<1> DEFINE R == Max({rows, LROWS})
           C == Max({cols, LCOLS})
<1>1. LROWS \in Nat /\ LCOLS \in Nat
  BY DEF TextTypes
<1>2. R \in Nat /\ R \in {rows, LROWS} /\ R >= rows /\ R >= LROWS
  BY <1>1, Larger
<1>3. C \in Nat /\ C \in {cols, LCOLS} /\ C >= cols /\ C >= LCOLS
  BY <1>1, Larger
<1> HIDE DEF R, C
<1>4. Cells(LROWS, LCOLS) \subseteq Cells(R, C)
  BY <1>1, <1>2, <1>3 DEF Cells
<1>5. CASE rows <= LROWS /\ cols <= LCOLS
  <2>1. grown = fb
    BY <1>5 DEF Resized
  <2>2. R = LROWS /\ C = LCOLS
    BY <1>1, <1>2, <1>3, <1>5
  <2> QED BY <2>1, <2>2 DEF R, C, Grown
<1>6. CASE ~(rows <= LROWS /\ cols <= LCOLS)
  <2>1. grown = [cell \in Cells(R, C) |-> IF cell \in DOMAIN fb THEN fb[cell] ELSE new]
    BY <1>6 DEF Resized, R, C
  <2> QED BY <1>4, <2>1 DEF R, C, Grown
<1> QED BY <1>5, <1>6

\* Every cell of the display is in the layout, and has an address.
LEMMA DisplayCells ==
    ASSUME TextTypes, NEW cell \in Cells(DROWS, DCOLS)
    PROVE  /\ cell \in Cells(LROWS, LCOLS) /\ OnDisplay(cell)
           /\ Address(cell) \in Addresses
           /\ <<Address(cell) \div DCOLS, Address(cell) % DCOLS>> = cell
<1>1. DROWS \in Nat /\ DCOLS \in Nat \ {0}
  BY DisplayAssumption
<1>2. cell = <<cell[1], cell[2]>> /\ cell[1] \in 0..DROWS - 1 /\ cell[2] \in 0..DCOLS - 1
  BY DEF Cells
<1>3. cell[1] \in 0..LROWS - 1 /\ cell[2] \in 0..LCOLS - 1
  BY <1>1, <1>2 DEF TextTypes
<1>4. Address(cell) \in Addresses /\ Address(cell) \div DCOLS = cell[1] /\ Address(cell) % DCOLS = cell[2]
  BY <1>1, NumberOfCell DEF Address, Addresses
<1>5. OnDisplay(cell)
  BY <1>1, <1>2 DEF OnDisplay
<1> QED BY <1>2, <1>3, <1>4, <1>5 DEF Cells

\* A cell is either sent, as the layout has it, or nothing changes; and then, if it is in the
\* region, it did not differ.
LEMMA BlitShows ==
    ASSUME TextTypes, NEW layout, NEW display, DOMAIN display = Addresses, NEW looks, NEW region,
           Blit(layout, display, looks, region)
    PROVE  /\ DOMAIN DisplayFB' = Addresses /\ DOMAIN device' = Addresses
           /\ \A cell \in Cells(DROWS, DCOLS) :
                 \/ /\ DisplayFB'[Address(cell)] = layout[cell]
                    /\ device'[Address(cell)] = [char |-> layout[cell], look |-> LookOf(layout[cell], looks)]
                 \/ /\ DisplayFB'[Address(cell)] = display[Address(cell)]
                    /\ device'[Address(cell)] = device[Address(cell)]
                    /\ cell \in region => display[Address(cell)] = layout[cell]
<1> DEFINE Differing(r) == {c \in 0..DCOLS - 1 : <<r, c>> \in region /\ display[Address(<<r, c>>)] # layout[<<r, c>>]}
           sent == UNION {{<<r, c>> : c \in Sent(Differing(r))} : r \in 0..DROWS - 1}
           At(d) == <<d \div DCOLS, d % DCOLS>>
<1>1. DisplayFB' = [d \in DOMAIN display |-> IF At(d) \in sent THEN layout[At(d)] ELSE display[d]]
  BY DEF Blit
<1>2. device' = [d \in DOMAIN device |->
                    IF At(d) \in sent
                    THEN [char |-> layout[At(d)], look |-> LookOf(layout[At(d)], looks)]
                    ELSE device[d]]
  BY DEF Blit
<1>3. DOMAIN device = Addresses
  BY DEF TextTypes
<1>4. ASSUME NEW cell \in Cells(DROWS, DCOLS)
      PROVE  \/ /\ DisplayFB'[Address(cell)] = layout[cell]
                /\ device'[Address(cell)] = [char |-> layout[cell], look |-> LookOf(layout[cell], looks)]
             \/ /\ DisplayFB'[Address(cell)] = display[Address(cell)]
                /\ device'[Address(cell)] = device[Address(cell)]
                /\ cell \in region => display[Address(cell)] = layout[cell]
  <2>1. Address(cell) \in Addresses /\ At(Address(cell)) = cell
    BY <1>4, DisplayCells
  <2>2. cell \in region /\ display[Address(cell)] # layout[cell] => cell \in sent
    <3>1. PICK r \in 0..DROWS - 1, c \in 0..DCOLS - 1 : cell = <<r, c>>
      BY <1>4 DEF Cells
    <3> SUFFICES ASSUME cell \in region, display[Address(cell)] # layout[cell] PROVE cell \in sent
      OBVIOUS
    <3>2. c \in Differing(r)
      BY <3>1
    <3>3. Differing(r) \subseteq Sent(Differing(r))
      BY DEF Sent
    <3> QED BY <3>1, <3>2, <3>3
  <2> HIDE DEF sent, At
  <2>3. CASE cell \in sent
    BY <1>1, <1>2, <1>3, <2>1, <2>3
  <2>4. CASE cell \notin sent
    BY <1>1, <1>2, <1>3, <2>1, <2>2, <2>4
  <2> QED BY <2>3, <2>4
<1> HIDE DEF sent, At
<1> QED BY <1>1, <1>2, <1>3, <1>4

\* What is not in the region stays, what is there is sent or was right.
LEMMA BlitKeeps ==
    ASSUME TextTypes, NEW layout, NEW display, DOMAIN display = Addresses, NEW looks, NEW region,
           Blit(layout, display, looks, region), drv' = drv,
           NEW cell \in Cells(DROWS, DCOLS),
           AsLaidOut(cell, LayoutFB, DisplayFB, device, glyphs),
           display[Address(cell)] \in {DisplayFB[Address(cell)]} \cup Complements(drv),
           layout[cell] \notin Complements(drv),
           cell \notin region => layout[cell] = LayoutFB[cell],
           drv.INVALIDATE /\ (cell \in region => display[Address(cell)] = layout[cell]) =>
               LookOf(layout[cell], looks) = LookOf(layout[cell], glyphs)
    PROVE  AsLaidOut(cell, layout, DisplayFB', device', looks)
<1> DEFINE a == Address(cell)
<1>1. \/ /\ DisplayFB'[a] = layout[cell]
         /\ device'[a] = [char |-> layout[cell], look |-> LookOf(layout[cell], looks)]
      \/ /\ DisplayFB'[a] = display[a] /\ device'[a] = device[a]
         /\ cell \in region => display[a] = layout[cell]
  BY BlitShows
<1> HIDE DEF a
<1>2. CASE /\ DisplayFB'[a] = layout[cell]
           /\ device'[a] = [char |-> layout[cell], look |-> LookOf(layout[cell], looks)]
  BY <1>2 DEF AsLaidOut, a
<1>3. CASE /\ DisplayFB'[a] = display[a] /\ device'[a] = device[a]
           /\ cell \in region => display[a] = layout[cell]
  <2>1. layout[cell] = LayoutFB[cell]
    BY <1>3 DEF AsLaidOut, a
  <2>2. drv.INVALIDATE => LookOf(layout[cell], looks) = LookOf(LayoutFB[cell], glyphs)
    BY <1>3, <2>1 DEF a
  <2> QED BY <1>3, <2>1, <2>2 DEF AsLaidOut, a
<1> QED BY <1>1, <1>2, <1>3

\* The layout grows to the size that was asked for, and never gets smaller.
LEMMA ResizeGrows ==
    ASSUME TextTypes, NEW rows \in Nat, NEW cols \in Nat, Resize(rows, cols)
    PROVE  /\ LROWS' \in Nat /\ LROWS' >= DROWS /\ LCOLS' \in Nat /\ LCOLS' >= DCOLS
           /\ LROWS' = Max({rows, LROWS}) /\ LCOLS' = Max({cols, LCOLS})
           /\ LROWS' >= rows /\ LCOLS' >= cols
<1>1. LROWS \in Nat /\ LCOLS \in Nat /\ DROWS \in Nat /\ DCOLS \in Nat /\ LROWS >= DROWS /\ LCOLS >= DCOLS
  BY DisplayAssumption DEF TextTypes
<1>2. Max({rows, LROWS}) \in {rows, LROWS} /\ Max({rows, LROWS}) >= rows /\ Max({rows, LROWS}) >= LROWS
  BY <1>1, Larger
<1>3. Max({cols, LCOLS}) \in {cols, LCOLS} /\ Max({cols, LCOLS}) >= cols /\ Max({cols, LCOLS}) >= LCOLS
  BY <1>1, Larger
<1>4. LROWS' = Max({rows, LROWS}) /\ LCOLS' = Max({cols, LCOLS})
  BY DEF Resize
<1>5. LROWS' \in Nat /\ LROWS' >= DROWS /\ LROWS' >= rows
  BY <1>1, <1>2, <1>4
<1>6. LCOLS' \in Nat /\ LCOLS' >= DCOLS /\ LCOLS' >= cols
  BY <1>1, <1>3, <1>4
<1> QED BY <1>4, <1>5, <1>6

\* No bar is drawn by growing.
LEMMA BarsGrow ==
    ASSUME TextTypes, InPlace(BarFB), NEW rows \in Nat, NEW cols \in Nat, NEW grown \in BarsResized(rows, cols)
    PROVE  DOMAIN grown = Cells(Max({rows, LROWS}), Max({cols, LCOLS})) /\ InPlace(grown)
<1>1. LROWS \in Nat /\ LCOLS \in Nat /\ DOMAIN BarFB = Cells(LROWS, LCOLS)
  BY DEF TextTypes
<1>2. CASE rows <= LROWS /\ cols <= LCOLS
  <2>1. Max({rows, LROWS}) = LROWS /\ Max({cols, LCOLS}) = LCOLS
    <3>1. Max({rows, LROWS}) \in {rows, LROWS} /\ Max({rows, LROWS}) >= LROWS
      BY <1>1, Larger
    <3>2. Max({cols, LCOLS}) \in {cols, LCOLS} /\ Max({cols, LCOLS}) >= LCOLS
      BY <1>1, Larger
    <3> QED BY <1>1, <1>2, <3>1, <3>2
  <2>2. grown = BarFB
    BY <1>2 DEF BarsResized
  <2> QED BY <1>1, <2>1, <2>2
<1>3. CASE ~(rows <= LROWS /\ cols <= LCOLS)
  <2>1. PICK new : grown = Resized(BarFB, rows, cols, new) /\ new \in BarRecord /\ new.dir = {}
    <3>1. PICK garbage \in {"none", "first"} : grown = Resized(BarFB, rows, cols, [NoBar EXCEPT !.style = garbage])
      BY <1>3 DEF BarsResized
    <3>2. [NoBar EXCEPT !.style = garbage] \in BarRecord /\ [NoBar EXCEPT !.style = garbage].dir = {}
      BY DEF BarRecord, NoBar
    <3> QED BY <3>1, <3>2
  <2>2. DOMAIN grown = Cells(Max({rows, LROWS}), Max({cols, LCOLS})) /\ Grown(grown, BarFB, new)
    <3>1. /\ DOMAIN Resized(BarFB, rows, cols, new) = Cells(Max({rows, LROWS}), Max({cols, LCOLS}))
          /\ Grown(Resized(BarFB, rows, cols, new), BarFB, new)
      BY <1>1, ResizedKeeps
    <3> QED BY <2>1, <3>1
  <2>3. ASSUME NEW cell \in DOMAIN grown
        PROVE  grown[cell] \in BarRecord /\ (grown[cell].dir # {} => \E w \in drv.bars : cell \in AreaOfBar(w))
    <3>1. CASE cell \in Cells(LROWS, LCOLS)
      <4>1. grown[cell] = BarFB[cell] /\ cell \in DOMAIN BarFB
        BY <1>1, <2>2, <3>1 DEF Grown
      <4> QED BY <4>1 DEF InPlace
    <3>2. CASE cell \notin Cells(LROWS, LCOLS)
      <4>1. grown[cell] = new
        BY <2>2, <3>2 DEF Grown
      <4> QED BY <2>1, <4>1
    <3> QED BY <3>1, <3>2
  <2> QED BY <2>2, <2>3 DEF InPlace
<1> QED BY <1>2, <1>3

\* What texts write, and the chars of icons, is never a complement.
LEMMA NoComplement ==
    ASSUME NEW setup \in TextSetups
    PROVE  /\ \A char \in Written(setup) : char \notin Complements(setup)
           /\ \A char \in IconChars(setup) : char \notin Complements(setup)
<1>1. IconChars(setup) \subseteq Definable(setup)
  BY OfSetup DEF Definable, IconChars
<1> QED BY <1>1, CharsApart

-----------------------------------------------------------------------------
(* The layout. *)

\* A layout that differs from LayoutFB in some cells only, and may be larger.
Redrawn(layout, touched) ==
    /\ DOMAIN LayoutFB \subseteq DOMAIN layout
    /\ \A cell \in DOMAIN layout \ touched : layout[cell] = IF cell \in DOMAIN LayoutFB THEN LayoutFB[cell] ELSE Blank

LEMMA TextElsewhere ==
    ASSUME NEW w, NEW what, NEW layout, NEW touched, Redrawn(layout, touched),
           TextLaid(w, LayoutFB, what), AreaOfText(w) \cap touched = {}
    PROVE  TextLaid(w, layout, what)
<1>1. \A cell \in AreaOfText(w) \cap DOMAIN LayoutFB : cell \in DOMAIN layout /\ layout[cell] = LayoutFB[cell]
  BY DEF Redrawn
<1>2. \A i \in DOMAIN what :
          /\ <<w.row, w.col + i - 1>> \in AreaOfText(w) \cap DOMAIN layout
          /\ layout[<<w.row, w.col + i - 1>>] = what[i]
  BY <1>1 DEF TextLaid
<1>3. Blank \in Written(drv)
  BY DEF Written
<1>4. \A cell \in AreaOfText(w) \cap DOMAIN layout : layout[cell] \in Written(drv)
  BY <1>3 DEF TextLaid, Redrawn
<1> QED BY <1>2, <1>4 DEF TextLaid

LEMMA IconElsewhere ==
    ASSUME NEW w, NEW given, NEW what, NEW layout, NEW touched, Redrawn(layout, touched),
           IconLaid(w, LayoutFB, given, what), AreaOfIcon(w) \cap touched = {}
    PROVE  IconLaid(w, layout, given, what)
<1>1. \A cell \in AreaOfIcon(w) \cap DOMAIN LayoutFB : cell \in DOMAIN layout /\ layout[cell] = LayoutFB[cell]
  BY DEF Redrawn
<1>2. \A cell \in AreaOfIcon(w) \cap DOMAIN layout :
          layout[cell] = Blank \/ (given.ascii >= 0 /\ layout[cell] = given.ascii)
  BY DEF IconLaid, Redrawn
<1>3. <<w.row, w.col>> \in AreaOfIcon(w)
  BY DEF AreaOfIcon
<1>4. what # Undrawn => <<w.row, w.col>> \in DOMAIN layout /\ layout[<<w.row, w.col>>] = LayoutFB[<<w.row, w.col>>]
  BY <1>1, <1>3 DEF IconLaid
<1> QED BY <1>2, <1>4 DEF IconLaid

\* What a layout shows where texts and icons may draw is what a text writes, or an icon's char.
LEMMA LaidChars ==
    ASSUME drv \in TextSetups, NEW layout, NEW given,
           \A w \in drv.icons : given[w].ascii >= 0 => given[w].ascii \in IconChars(drv),
           NEW last,
           \A w \in drv.texts : TextLaid(w, layout, last[w]),
           \A w \in drv.icons : IconLaid(w, layout, given[w], last[w]),
           NEW cell \in Own \cap DOMAIN layout
    PROVE  layout[cell] \in Written(drv) \cup IconChars(drv) /\ layout[cell] \notin Complements(drv)
<1>1. Blank \in Written(drv)
  BY DEF Written
<1>2. CASE \E w \in drv.texts : cell \in AreaOfText(w)
  <2>1. layout[cell] \in Written(drv)
    BY <1>2 DEF TextLaid
  <2> QED BY <2>1, NoComplement
<1>3. CASE \E w \in drv.icons : cell \in AreaOfIcon(w)
  <2>1. PICK w \in drv.icons : cell \in AreaOfIcon(w)
    BY <1>3
  <2>2. layout[cell] = Blank \/ (given[w].ascii >= 0 /\ layout[cell] = given[w].ascii)
    BY <2>1 DEF IconLaid
  <2>3. CASE layout[cell] = Blank
    BY <1>1, <2>3, NoComplement
  <2>4. CASE given[w].ascii >= 0 /\ layout[cell] = given[w].ascii
    <3>1. layout[cell] \in IconChars(drv)
      BY <2>4
    <3> QED BY <3>1, NoComplement
  <2> QED BY <2>2, <2>3, <2>4
<1> QED BY <1>2, <1>3 DEF Own

\* Chars that icons were given, and there are ICONS of them at most.
LEMMA IconsGivenNat == drv \in TextSetups => IconsGiven \in Nat
<1> SUFFICES ASSUME drv \in TextSetups PROVE IconsGiven \in Nat
  OBVIOUS
<1>1. IsFiniteSet(drv.icons)
  BY OfSetup
<1>2. IsFiniteSet({w \in drv.icons : icon[w].ascii >= 0})
  BY <1>1, FS_Subset
<1> QED BY <1>2, FS_CardinalityType DEF IconsGiven

LEMMA GivenChar ==
    ASSUME drv \in TextSetups, CharsGiven, NEW w \in drv.icons, icon[w].ascii >= 0
    PROVE  icon[w].ascii \in IconChars(drv)
<1>1. IconsGiven \in Nat /\ drv.CHARS \in Nat /\ drv.CHAR0 \in Nat /\ drv.ICONS \in 0..drv.CHARS
  BY IconsGivenNat, OfSetup
<1>2. IconsGiven <= drv.ICONS
  BY DEF CharsGiven
<1>3. icon[w].ascii \in {-2, -1} \cup (drv.CHAR0 + drv.CHARS - IconsGiven..drv.CHAR0 + drv.CHARS - 1)
  BY DEF CharsGiven
<1> QED BY <1>1, <1>2, <1>3 DEF IconChars

\* Nothing changes for icons, whose chars keep their looks.
LEMMA IconsStay ==
    ASSUME IconsApart, drv' = drv, icon' = icon,
           \A c \in IconChars(drv) : glyphs'[c] = glyphs[c],
           drv \in TextSetups
    PROVE  IconsApart'
<1>1. IconsGiven' = IconsGiven
  BY DEF IconsGiven
<1>2. ASSUME NEW w \in drv.icons, icon[w].ascii >= 0
      PROVE  icon[w].ascii \in IconChars(drv)
  BY <1>2, GivenChar DEF IconsApart
<1> QED BY <1>1, <1>2 DEF IconsApart, CharsGiven, BitmapsKnown

-----------------------------------------------------------------------------
(* The steps. *)

\* drv_generic_text_draw
LEMMA DrawTextKeeps ==
    ASSUME TextInv, NEW w \in drv.texts, NEW text \in w.texts, DrawText(w, text)
    PROVE  TextInv'
<1> DEFINE cells == {<<w.row, w.col + i - 1>> : i \in DOMAIN text}
           rows == w.row + 1
           cols == w.col + Len(text)
           grown == Resized(LayoutFB, rows, cols, Blank)
           layout == [cell \in DOMAIN grown |-> IF cell \in cells THEN text[cell[2] - w.col + 1] ELSE grown[cell]]
<1>1. /\ TextTypes /\ InPlace(BarFB) /\ BarsInPlace /\ IconsApart /\ LaidOut /\ OnTheDisplay
      /\ drv \in TextSetups
  BY DEF TextInv, TextTypes, BarsInPlace
<1>2. w.row \in Nat /\ w.col \in Nat /\ text \in Seq(Nat)
  BY <1>1, OfSetup
<1>3. Len(text) \in Nat /\ DOMAIN text = 1..Len(text) /\ rows \in Nat /\ cols \in Nat
  BY <1>2
<1>4. /\ Resize(rows, cols) /\ LayoutFB' = layout /\ BarFB' \in BarsResized(rows, cols)
      /\ Blit(layout, DisplayFB, glyphs, cells)
      /\ drawn' = [drawn EXCEPT ![w] = text]
      /\ drv' = drv /\ glyphs' = glyphs /\ Segment' = Segment /\ icon' = icon
  BY DEF DrawText
<1>5. /\ LROWS' \in Nat /\ LROWS' >= DROWS /\ LCOLS' \in Nat /\ LCOLS' >= DCOLS
      /\ LROWS' = Max({rows, LROWS}) /\ LCOLS' = Max({cols, LCOLS})
      /\ LROWS' >= rows /\ LCOLS' >= cols
  BY <1>1, <1>3, <1>4, ResizeGrows
<1>6. DOMAIN grown = Cells(LROWS', LCOLS') /\ Grown(grown, LayoutFB, Blank)
  <2>1. DOMAIN LayoutFB = Cells(LROWS, LCOLS)
    BY <1>1 DEF TextTypes
  <2> HIDE DEF rows, cols, grown
  <2>2. grown = Resized(LayoutFB, rows, cols, Blank)
    BY DEF grown
  <2> QED BY <1>1, <1>3, <1>5, <2>1, <2>2, ResizedKeeps
<1>7. DOMAIN LayoutFB = Cells(LROWS, LCOLS)
  BY <1>1 DEF TextTypes
<1>8. cells \subseteq AreaOfText(w) /\ cells \subseteq Cells(LROWS', LCOLS')
  <2>1. ASSUME NEW i \in DOMAIN text PROVE <<w.row, w.col + i - 1>> \in AreaOfText(w)
    BY DEF AreaOfText
  <2>2. ASSUME NEW i \in DOMAIN text PROVE <<w.row, w.col + i - 1>> \in Cells(LROWS', LCOLS')
    <3>1. i \in 1..Len(text)
      BY <1>3
    <3>2. i \in Nat /\ 1 <= i /\ i <= Len(text) /\ Len(text) \in Nat
      BY <1>3, <3>1
    <3>3. LROWS' \in Nat /\ LROWS' >= w.row + 1 /\ LCOLS' \in Nat /\ LCOLS' >= w.col + Len(text)
      BY <1>5
    <3>4. w.row \in 0..LROWS' - 1
      BY <1>2, <3>3
    <3>5. w.col + i - 1 \in 0..LCOLS' - 1
      BY <1>2, <3>2, <3>3
    <3> QED BY <3>4, <3>5 DEF Cells
  <2> QED BY <2>1, <2>2
<1>9. DOMAIN layout = Cells(LROWS', LCOLS')
  BY <1>6
<1>10. ASSUME NEW i \in DOMAIN text PROVE layout[<<w.row, w.col + i - 1>>] = text[i]
  <2>1. <<w.row, w.col + i - 1>> \in cells
    OBVIOUS
  <2>2. (w.col + i - 1) - w.col + 1 = i
    BY <1>2, <1>3
  <2>3. <<w.row, w.col + i - 1>> \in DOMAIN grown
    BY <1>6, <1>8, <2>1
  <2> QED BY <2>1, <2>2, <2>3
<1>11. Redrawn(layout, cells)
  BY <1>6, <1>7 DEF Redrawn, Grown
<1> HIDE DEF layout, grown, cells, rows, cols
<1>12. /\ DOMAIN DisplayFB' = Addresses /\ DOMAIN device' = Addresses
  BY <1>1, <1>4, BlitShows DEF TextTypes
<1>13. DOMAIN BarFB' = Cells(LROWS', LCOLS') /\ InPlace(BarFB')
  BY <1>1, <1>3, <1>4, <1>5, BarsGrow
<1>14. TextTypes'
  BY <1>1, <1>4, <1>5, <1>9, <1>12, <1>13 DEF TextTypes, Addresses
<1>15. BarsInPlace'
  BY <1>1, <1>4, <1>13 DEF BarsInPlace, InPlace, fSegment
<1>16. IconsApart'
  BY <1>1, <1>4, IconsStay
<1>17. \A v \in drv.texts : TextLaid(v, layout, drawn'[v])
  <2> SUFFICES ASSUME NEW v \in drv.texts PROVE TextLaid(v, layout, drawn'[v])
    OBVIOUS
  <2>1. TextLaid(v, LayoutFB, drawn[v])
    BY <1>1 DEF LaidOut
  <2>2. CASE v = w
    <3>1. drawn'[v] = text
      BY <1>1, <1>4, <2>2 DEF TextTypes
    <3>2. \A i \in DOMAIN text :
             /\ <<w.row, w.col + i - 1>> \in AreaOfText(w) \cap DOMAIN layout
             /\ layout[<<w.row, w.col + i - 1>>] = text[i]
      BY <1>8, <1>9, <1>10 DEF cells
    <3>3. \A i \in DOMAIN text : text[i] \in Written(drv)
      BY DEF Written
    <3>4. ASSUME NEW cell \in AreaOfText(w) \cap DOMAIN layout PROVE layout[cell] \in Written(drv)
      <4>1. CASE cell \in cells
        <5>1. PICK i \in DOMAIN text : cell = <<w.row, w.col + i - 1>>
          BY <4>1 DEF cells
        <5> QED BY <1>10, <3>3, <5>1
      <4>2. CASE cell \notin cells
        <5>1. Blank \in Written(drv)
          BY DEF Written
        <5> QED BY <1>11, <2>1, <2>2, <4>2, <5>1 DEF Redrawn, TextLaid
      <4> QED BY <4>1, <4>2
    <3> QED BY <2>2, <3>1, <3>2, <3>4 DEF TextLaid
  <2>3. CASE v # w
    <3>1. AreaOfText(v) \cap cells = {}
      BY <1>1, <1>8, <2>3, Apart
    <3>2. drawn'[v] = drawn[v]
      BY <1>1, <1>4, <2>3 DEF TextTypes
    <3> QED BY <1>11, <2>1, <3>1, <3>2, TextElsewhere
  <2> QED BY <2>2, <2>3
<1>18. \A v \in drv.icons : IconLaid(v, layout, icon[v], drawn'[v])
  <2> SUFFICES ASSUME NEW v \in drv.icons PROVE IconLaid(v, layout, icon[v], drawn'[v])
    OBVIOUS
  <2>1. IconLaid(v, LayoutFB, icon[v], drawn[v])
    BY <1>1 DEF LaidOut
  <2>2. AreaOfIcon(v) \cap cells = {} /\ v # w
    BY <1>1, <1>8, Apart
  <2>3. drawn'[v] = drawn[v]
    BY <1>1, <1>4, <2>2 DEF TextTypes
  <2> QED BY <1>11, <2>1, <2>2, <2>3, IconElsewhere
<1>19. LaidOut'
  BY <1>4, <1>17, <1>18 DEF LaidOut, TextLaid, IconLaid
<1>20. OnTheDisplay'
  <2> SUFFICES ASSUME NEW cell \in Own \cap Cells(DROWS, DCOLS)
               PROVE  AsLaidOut(cell, layout, DisplayFB', device', glyphs)
    BY <1>4 DEF OnTheDisplay, Own, AsLaidOut
  <2>1. cell \in DOMAIN layout /\ cell \in DOMAIN LayoutFB
    BY <1>1, <1>7, <1>11, DisplayCells DEF Redrawn
  <2>2. layout[cell] \notin Complements(drv)
    BY <1>1, <1>17, <1>18, <2>1, GivenChar, LaidChars DEF IconsApart
  <2>3. cell \notin cells => layout[cell] = LayoutFB[cell]
    BY <1>11, <2>1 DEF Redrawn
  <2>4. AsLaidOut(cell, LayoutFB, DisplayFB, device, glyphs)
    BY <1>1 DEF OnTheDisplay
  <2>5. DOMAIN DisplayFB = Addresses
    BY <1>1 DEF TextTypes
  <2> QED BY <1>1, <1>4, <2>2, <2>3, <2>4, <2>5, BlitKeeps
<1> QED BY <1>14, <1>15, <1>16, <1>19, <1>20 DEF TextInv

\* An icon that has no char is given the last one that is free.
LEMMA IconGetsChar ==
    ASSUME TextTypes, CharsGiven, NEW w \in drv.icons, AsciiOf(w) # -2, drv' = drv,
           NEW map, icon' = [icon EXCEPT ![w] = [ascii |-> AsciiOf(w), prvmap |-> map]]
    PROVE  /\ AsciiOf(w) \in IconChars(drv) /\ AsciiOf(w) \in Nat /\ CharsGiven'
<1> DEFINE ascii == AsciiOf(w)
           top == drv.CHAR0 + drv.CHARS
           given == {v \in drv.icons : icon[v].ascii >= 0}
<1>1. /\ drv \in TextSetups /\ IsFiniteSet(drv.icons) /\ DOMAIN icon = drv.icons
      /\ drv.CHARS \in Nat /\ drv.CHAR0 \in Nat /\ drv.ICONS \in 0..drv.CHARS
  BY OfSetup DEF TextTypes
<1>2. IsFiniteSet(given) /\ IconsGiven = Cardinality(given) /\ IconsGiven \in Nat /\ IconsGiven <= drv.ICONS
  <2>1. IsFiniteSet(given)
    BY <1>1, FS_Subset
  <2> QED BY <1>1, <2>1, IconsGivenNat DEF IconsGiven, CharsGiven
<1>3. \A v \in drv.icons : icon[v].ascii \in {-2, -1} \cup (top - IconsGiven..top - 1)
  <2>1. drv.CHAR0 + drv.CHARS - IconsGiven = top - IconsGiven /\ drv.CHAR0 + drv.CHARS - 1 = top - 1
    BY <1>1, <1>2
  <2> QED BY <2>1 DEF CharsGiven
<1>4. \A v \in drv.icons : icon'[v].ascii = IF v = w THEN ascii ELSE icon[v].ascii
  BY <1>1
<1>5. IconsGiven' = Cardinality({v \in drv.icons : icon'[v].ascii >= 0})
  BY DEF IconsGiven
<1>6. CASE icon[w].ascii # -1
  <2>1. ascii = icon[w].ascii
    BY <1>6 DEF AsciiOf
  <2>2. ascii \in top - IconsGiven..top - 1
    BY <1>3, <2>1, <1>6
  <2>3. ascii \in IconChars(drv) /\ ascii \in Nat
    BY <1>1, <1>2, <2>2 DEF IconChars
  <2>4. \A v \in drv.icons : icon'[v].ascii = icon[v].ascii
    BY <1>4, <2>1
  <2>5. IconsGiven' = IconsGiven
    BY <1>5, <2>4 DEF IconsGiven
  <2> QED BY <2>3, <2>4, <2>5 DEF CharsGiven
<1>7. CASE icon[w].ascii = -1
  <2>1. IconsGiven < drv.ICONS /\ ascii = top - (IconsGiven + 1)
    BY <1>1, <1>2, <1>7 DEF AsciiOf
  <2>2. ascii \in IconChars(drv) /\ ascii \in Nat
    BY <1>1, <1>2, <2>1 DEF IconChars
  <2>3. {v \in drv.icons : icon'[v].ascii >= 0} = given \cup {w} /\ w \notin given
    BY <1>4, <1>7, <2>2
  <2>4. IconsGiven' = IconsGiven + 1
    BY <1>2, <1>5, <2>3, FS_AddElement
  <2>5. \A v \in drv.icons : icon'[v].ascii \in {-2, -1} \cup (top - (IconsGiven + 1)..top - 1)
    <3> SUFFICES ASSUME NEW v \in drv.icons PROVE icon'[v].ascii \in {-2, -1} \cup (top - (IconsGiven + 1)..top - 1)
      OBVIOUS
    <3>1. CASE v = w
      BY <1>1, <1>2, <1>4, <2>1, <3>1
    <3>2. CASE v # w
      <4>1. icon'[v].ascii \in {-2, -1} \cup (top - IconsGiven..top - 1)
        BY <1>3, <1>4, <3>2
      <4> QED BY <1>1, <1>2, <4>1
    <3> QED BY <3>1, <3>2
  <2>6. ASSUME NEW u \in drv.icons, NEW v \in drv.icons, icon'[u].ascii = icon'[v].ascii, icon'[u].ascii >= 0 PROVE u = v
    <3>1. \A x \in drv.icons : icon[x].ascii # ascii
      <4> SUFFICES ASSUME NEW x \in drv.icons PROVE icon[x].ascii # ascii
        OBVIOUS
      <4>1. icon[x].ascii \in {-2, -1} \cup (top - IconsGiven..top - 1)
        BY <1>3
      <4> QED BY <1>1, <1>2, <2>1, <2>2, <4>1
    <3>2. u # w /\ v # w => icon[u].ascii = icon[v].ascii /\ icon[u].ascii >= 0
      BY <1>4, <2>6
    <3>3. u # w /\ v # w => u = v
      BY <3>2 DEF CharsGiven
    <3> QED BY <1>4, <2>6, <3>1, <3>3
  <2>7. /\ drv'.CHAR0 + drv'.CHARS - IconsGiven' = top - (IconsGiven + 1)
        /\ drv'.CHAR0 + drv'.CHARS - 1 = top - 1
    BY <1>1, <1>2, <2>4
  <2>8. IconsGiven' <= drv'.ICONS
    BY <1>1, <1>2, <2>1, <2>4
  <2> QED BY <2>2, <2>5, <2>6, <2>7, <2>8 DEF CharsGiven
<1> QED BY <1>6, <1>7

-----------------------------------------------------------------------------
(* What is sent again. *)

\* Of the cells with an address, one is the last.
LEMMA LastHit ==
    ASSUME NEW hits \in SUBSET (Nat \X Nat), hits # {}, NEW d \in Nat, \A cell \in hits : Address(cell) = d
    PROVE  \E cell \in hits : \A other \in hits \ {cell} : Before(other, cell)
<1> DEFINE Left == {d - cell[1] : cell \in hits}
<1>1. DCOLS \in Nat \ {0}
  BY DisplayAssumption
<1>2. ASSUME NEW cell \in hits
      PROVE  cell = <<cell[1], cell[2]>> /\ cell[1] \in Nat /\ cell[2] \in Nat /\ cell[1] <= d /\ cell[1] * DCOLS + cell[2] = d
  <2>1. cell = <<cell[1], cell[2]>> /\ cell[1] \in Nat /\ cell[2] \in Nat
    OBVIOUS
  <2>2. cell[1] * DCOLS + cell[2] = d
    BY DEF Address
  <2>3. cell[1] * DCOLS \in Nat /\ cell[1] <= cell[1] * DCOLS
    <3>1. PICK r \in Nat : r = cell[1]
      BY <2>1
    <3>2. PICK n \in Nat : DCOLS = n + 1
      <4>1. DCOLS - 1 \in Nat /\ DCOLS = (DCOLS - 1) + 1
        BY <1>1
      <4> QED BY <4>1
    <3>3. r * (n + 1) = r * n + r /\ r * n \in Nat
      BY <3>1, <3>2
    <3> QED BY <3>1, <3>2, <3>3
  <2> QED BY <2>1, <2>2, <2>3
<1>3. Left \in SUBSET Nat /\ Left # {}
  BY <1>2
<1>4. PICK least \in Left : \A k \in Left : least <= k
  <2> HIDE DEF Left
  <2> QED BY <1>3, Least
<1>5. PICK cell \in hits : least = d - cell[1]
  BY <1>4
<1>6. ASSUME NEW other \in hits, other # cell PROVE Before(other, cell)
  <2>1. d - other[1] \in Left
    OBVIOUS
  <2>2. other[1] <= cell[1]
    <3>1. least <= d - other[1]
      <4> HIDE DEF Left
      <4> QED BY <1>4, <2>1
    <3>2. other[1] \in Nat /\ cell[1] \in Nat
      BY <1>2
    <3>3. d - cell[1] <= d - other[1]
      BY <1>5, <3>1
    <3> QED BY <3>2, <3>3
  <2>3. other[1] # cell[1]
    <3> SUFFICES ASSUME other[1] = cell[1] PROVE FALSE
      OBVIOUS
    <3>1. PICK p \in Nat : p = cell[1] * DCOLS
      BY <1>1, <1>2
    <3>2. p + other[2] = d /\ p + cell[2] = d
      BY <1>2, <3>1
    <3>3. other[2] = cell[2]
      BY <1>2, <3>1, <3>2
    <3> QED BY <1>2, <1>6, <3>3
  <2> QED BY <1>2, <2>2, <2>3 DEF Before
<1> QED BY <1>6

\* Cells that show chars that can be defined do not look right to blit after they were made
\* wrong, and all others look right or wrong as before.
LEMMA Marked ==
    ASSUME TextTypes, NEW layout, NEW cells \in SUBSET (Nat \X Nat),
           cells # {} => drv.INVALIDATE,
           \A cell \in cells : layout[cell] \in Definable(drv)
    PROVE  /\ DOMAIN Invalidated(layout, cells) = Addresses
           /\ \A d \in Addresses : Invalidated(layout, cells)[d] \in {DisplayFB[d]} \cup Complements(drv)
           /\ \A cell \in cells : Address(cell) \in Addresses =>
                 Invalidated(layout, cells)[Address(cell)] # layout[cell]
<1> DEFINE Hits(d) == {cell \in cells : Address(cell) = d}
           Last(d) == CHOOSE cell \in Hits(d) : \A other \in Hits(d) \ {cell} : Before(other, cell)
<1>1. DOMAIN DisplayFB = Addresses /\ drv \in TextSetups
  BY DEF TextTypes
<1>2. Invalidated(layout, cells) = [d \in Addresses |-> IF Hits(d) = {} THEN DisplayFB[d] ELSE Not(layout[Last(d)])]
  BY <1>1 DEF Invalidated
<1>3. ASSUME NEW d \in Addresses, Hits(d) # {} PROVE Not(layout[Last(d)]) \in Complements(drv)
  <2>1. d \in Nat
    BY DEF Addresses
  <2>2. \E cell \in Hits(d) : \A other \in Hits(d) \ {cell} : Before(other, cell)
    <3>1. Hits(d) \in SUBSET (Nat \X Nat) /\ \A cell \in Hits(d) : Address(cell) = d
      OBVIOUS
    <3> HIDE DEF Hits
    <3> QED BY <1>3, <2>1, <3>1, LastHit
  <2>3. Last(d) \in Hits(d)
    BY <2>2
  <2>4. Last(d) \in cells
    BY <2>3
  <2>5. layout[Last(d)] \in Definable(drv) /\ drv.INVALIDATE
    BY <2>4
  <2> HIDE DEF Last
  <2> QED BY <2>5 DEF Complements
<1>4. ASSUME NEW cell \in cells, Address(cell) \in Addresses
      PROVE  Invalidated(layout, cells)[Address(cell)] # layout[cell]
  <2>1. Hits(Address(cell)) # {}
    OBVIOUS
  <2>2. Invalidated(layout, cells)[Address(cell)] \in Complements(drv)
    BY <1>2, <1>3, <1>4, <2>1
  <2>3. layout[cell] \notin Complements(drv)
    BY <1>1, CharsApart
  <2> QED BY <2>2, <2>3
<1> HIDE DEF Hits, Last
<1> QED BY <1>2, <1>3, <1>4

\* drv_generic_text_icon_draw
LEMMA DrawIconKeeps ==
    ASSUME TextInv, NEW w \in drv.icons, NEW map \in w.maps, NEW visible \in BOOLEAN, DrawIcon(w, map, visible)
    PROVE  TextInv'
<1> DEFINE spot == <<w.row, w.col>>
           ascii == AsciiOf(w)
           redefined == visible /\ Redefine(w, map)
           looks == IF redefined THEN [glyphs EXCEPT ![ascii] = <<"icon", map>>] ELSE glyphs
           invalid == IF redefined /\ drv.INVALIDATE THEN {spot} ELSE {}
           known == IF redefined /\ ascii >= 0 THEN map ELSE icon[w].prvmap
           rows == w.row + 1
           cols == w.col + 1
           grown == Resized(LayoutFB, rows, cols, Blank)
           layout == [grown EXCEPT ![spot] = IF visible THEN ascii ELSE Blank]
<1>1. /\ TextTypes /\ InPlace(BarFB) /\ BarsInPlace /\ IconsApart /\ LaidOut /\ OnTheDisplay
      /\ drv \in TextSetups /\ CharsGiven /\ BitmapsKnown
  BY DEF TextInv, TextTypes, BarsInPlace, IconsApart
<1>2. w.row \in Nat /\ w.col \in Nat /\ rows \in Nat /\ cols \in Nat /\ map \notin {"none", "blank"}
  BY <1>1, OfSetup
<1>3. /\ Resize(rows, cols) /\ BarFB' \in BarsResized(rows, cols)
      /\ icon' = [icon EXCEPT ![w] = [ascii |-> ascii, prvmap |-> known]]
      /\ drv' = drv /\ Segment' = Segment
      /\ IF ascii = -2
         THEN /\ LayoutFB' = grown
              /\ DisplayFB' = DisplayFB /\ device' = device /\ glyphs' = glyphs /\ drawn' = drawn
         ELSE /\ LayoutFB' = layout /\ glyphs' = looks
              /\ Blit(layout, Invalidated(layout, invalid), looks, {spot})
              /\ drawn' = [drawn EXCEPT ![w] = <<IF visible THEN map ELSE "blank">>]
  BY DEF DrawIcon
<1>4. /\ LROWS' \in Nat /\ LROWS' >= DROWS /\ LCOLS' \in Nat /\ LCOLS' >= DCOLS
      /\ LROWS' = Max({rows, LROWS}) /\ LCOLS' = Max({cols, LCOLS})
      /\ LROWS' >= rows /\ LCOLS' >= cols
  BY <1>1, <1>2, <1>3, ResizeGrows
<1>5. DOMAIN LayoutFB = Cells(LROWS, LCOLS) /\ DOMAIN icon = drv.icons
  BY <1>1 DEF TextTypes
<1>6. DOMAIN grown = Cells(LROWS', LCOLS') /\ Grown(grown, LayoutFB, Blank)
  <2> HIDE DEF rows, cols, grown
  <2>1. grown = Resized(LayoutFB, rows, cols, Blank)
    BY DEF grown
  <2> QED BY <1>1, <1>2, <1>4, <1>5, <2>1, ResizedKeeps
<1>7. spot \in Cells(LROWS', LCOLS') /\ AreaOfIcon(w) = {spot}
  BY <1>2, <1>4 DEF Cells, AreaOfIcon
<1>8. \A v \in drv.icons : icon'[v] = IF v = w THEN [ascii |-> ascii, prvmap |-> known] ELSE icon[v]
  BY <1>3, <1>5
<1>9. DOMAIN BarFB' = Cells(LROWS', LCOLS') /\ InPlace(BarFB')
  BY <1>1, <1>2, <1>3, <1>4, BarsGrow
<1>10. BarsInPlace'
  BY <1>1, <1>3, <1>9 DEF BarsInPlace, InPlace, fSegment
<1>11. Redrawn(grown, {})
  BY <1>5, <1>6 DEF Redrawn, Grown
<1> HIDE DEF ascii, known, grown, rows, cols
<1>12. CASE ascii = -2
  <2>1. icon[w].ascii \in {-2, -1}
    <3>1. IconsGiven \in Nat /\ drv.CHARS \in Nat /\ drv.CHAR0 \in Nat /\ drv.ICONS \in 0..drv.CHARS
      BY <1>1, IconsGivenNat, OfSetup
    <3>2. CASE icon[w].ascii # -1
      BY <1>12, <3>2 DEF ascii, AsciiOf
    <3>3. CASE icon[w].ascii = -1
      BY <3>3
    <3> QED BY <3>2, <3>3
  <2>2. \A v \in drv.icons : icon'[v].ascii = IF v = w THEN -2 ELSE icon[v].ascii
    BY <1>8, <1>12
  <2>3. {v \in drv.icons : icon'[v].ascii >= 0} = {v \in drv.icons : icon[v].ascii >= 0}
    BY <2>1, <2>2
  <2>4. IconsGiven' = IconsGiven
    BY <1>3, <2>3 DEF IconsGiven
  <2>5. CharsGiven'
    BY <1>1, <1>3, <2>1, <2>2, <2>4 DEF CharsGiven
  <2>6. icon[w].prvmap = "none"
    BY <1>1, <2>1 DEF BitmapsKnown
  <2>7. known = "none"
    BY <1>12, <2>6 DEF known
  <2>8. BitmapsKnown'
    BY <1>1, <1>3, <1>8, <1>12, <2>7 DEF BitmapsKnown
  <2>9. \A v \in drv.icons : IconLaid(v, LayoutFB, icon'[v], drawn[v])
    <3> SUFFICES ASSUME NEW v \in drv.icons PROVE IconLaid(v, LayoutFB, icon'[v], drawn[v])
      OBVIOUS
    <3>1. IconLaid(v, LayoutFB, icon[v], drawn[v])
      BY <1>1 DEF LaidOut
    <3>2. CASE v = w
      BY <1>8, <1>12, <2>1, <3>1, <3>2 DEF IconLaid
    <3>3. CASE v # w
      BY <1>8, <3>1, <3>3
    <3> QED BY <3>2, <3>3
  <2>10. \A v \in drv.texts : TextLaid(v, grown, drawn[v])
    <3> SUFFICES ASSUME NEW v \in drv.texts PROVE TextLaid(v, grown, drawn[v])
      OBVIOUS
    <3>1. TextLaid(v, LayoutFB, drawn[v])
      BY <1>1 DEF LaidOut
    <3> QED BY <1>11, <3>1, TextElsewhere
  <2>11. \A v \in drv.icons : IconLaid(v, grown, icon'[v], drawn[v])
    <3> SUFFICES ASSUME NEW v \in drv.icons PROVE IconLaid(v, grown, icon'[v], drawn[v])
      OBVIOUS
    <3> QED BY <1>11, <2>9, IconElsewhere
  <2>12. LaidOut'
    BY <1>3, <1>12, <2>10, <2>11 DEF LaidOut, TextLaid, IconLaid
  <2>13. TextTypes'
    BY <1>1, <1>3, <1>4, <1>6, <1>9, <1>12 DEF TextTypes, Addresses
  <2>14. OnTheDisplay'
    <3> SUFFICES ASSUME NEW cell \in Own \cap Cells(DROWS, DCOLS)
                 PROVE  AsLaidOut(cell, grown, DisplayFB, device, glyphs)
      BY <1>3, <1>12 DEF OnTheDisplay, Own, AsLaidOut
    <3>1. cell \in Cells(LROWS, LCOLS)
      BY <1>1, DisplayCells
    <3>2. grown[cell] = LayoutFB[cell]
      BY <1>6, <3>1 DEF Grown
    <3>3. AsLaidOut(cell, LayoutFB, DisplayFB, device, glyphs)
      BY <1>1 DEF OnTheDisplay
    <3> QED BY <3>2, <3>3 DEF AsLaidOut
  <2> QED BY <1>10, <2>5, <2>8, <2>12, <2>13, <2>14 DEF TextInv, IconsApart
<1>13. CASE ascii # -2
  <2>1. ascii \in IconChars(drv) /\ ascii \in Nat /\ CharsGiven'
    BY <1>1, <1>3, <1>13, IconGetsChar DEF ascii
  <2>2. IconChars(drv) \subseteq Definable(drv) /\ DOMAIN glyphs = Definable(drv) /\ DOMAIN drawn = drv.texts \cup drv.icons \cup drv.bars
    BY <1>1, OfSetup DEF TextTypes, IconChars, Definable
  <2>3. DOMAIN layout = Cells(LROWS', LCOLS') /\ layout[spot] = IF visible THEN ascii ELSE Blank
    BY <1>6, <1>7
  <2>4. Redrawn(layout, {spot})
    BY <1>6, <1>11 DEF Redrawn
  <2>5. invalid \subseteq Nat \X Nat /\ (invalid # {} => drv.INVALIDATE) /\ \A cell \in invalid : layout[cell] \in Definable(drv)
    BY <1>2, <2>1, <2>2, <2>3
  <2>6. DOMAIN looks = DOMAIN glyphs /\ \A c \in DOMAIN glyphs : looks[c] = IF redefined /\ c = ascii THEN <<"icon", map>> ELSE glyphs[c]
    BY <2>1, <2>2
  <2>7. redefined /\ drv.INVALIDATE => spot \in invalid
    OBVIOUS
  <2>8. /\ DOMAIN Invalidated(layout, invalid) = Addresses
        /\ \A d \in Addresses : Invalidated(layout, invalid)[d] \in {DisplayFB[d]} \cup Complements(drv)
        /\ \A cell \in invalid : Address(cell) \in Addresses =>
              Invalidated(layout, invalid)[Address(cell)] # layout[cell]
    <3> HIDE DEF layout, invalid
    <3> QED BY <1>1, <2>5, Marked
  <2>9. \A v \in drv.icons : icon'[v].ascii >= 0 => icon'[v].ascii \in IconChars(drv)
    BY <1>1, <1>8, <2>1, GivenChar
  <2>10. ASSUME NEW v \in drv.icons, v # w, icon[v].ascii >= 0 PROVE icon[v].ascii # ascii
    BY <1>3, <1>8, <2>1, <2>10 DEF CharsGiven
  <2> HIDE DEF layout, looks, invalid
  <2>11. BitmapsKnown'
    <3> SUFFICES ASSUME NEW v \in drv.icons, icon'[v].prvmap # "none"
                 PROVE  icon'[v].ascii >= 0 /\ looks[icon'[v].ascii] = <<"icon", icon'[v].prvmap>>
      BY <1>3, <1>13 DEF BitmapsKnown
    <3>1. CASE v = w /\ redefined
      BY <1>8, <2>1, <2>2, <2>6, <3>1 DEF known
    <3>2. CASE v = w /\ ~redefined
      <4>1. known = icon[w].prvmap
        BY <3>2 DEF known
      <4>2. icon[w].ascii >= 0 /\ glyphs[icon[w].ascii] = <<"icon", icon[w].prvmap>>
        BY <1>1, <1>8, <3>2, <4>1 DEF BitmapsKnown
      <4>3. ascii = icon[w].ascii
        BY <4>2 DEF ascii, AsciiOf
      <4> QED BY <1>8, <2>1, <2>2, <2>6, <3>2, <4>1, <4>2, <4>3
    <3>3. CASE v # w
      <4>1. icon'[v] = icon[v]
        BY <1>8, <3>3
      <4>2. icon[v].ascii >= 0 /\ glyphs[icon[v].ascii] = <<"icon", icon[v].prvmap>>
        BY <1>1, <4>1 DEF BitmapsKnown
      <4>3. icon[v].ascii # ascii /\ icon[v].ascii \in IconChars(drv)
        BY <1>1, <2>10, <3>3, <4>2, GivenChar
      <4> QED BY <2>2, <2>6, <4>1, <4>2, <4>3
    <3> QED BY <3>1, <3>2, <3>3
  <2>12. \A v \in drv.texts : TextLaid(v, layout, drawn'[v])
    <3> SUFFICES ASSUME NEW v \in drv.texts PROVE TextLaid(v, layout, drawn'[v])
      OBVIOUS
    <3>1. TextLaid(v, LayoutFB, drawn[v]) /\ AreaOfText(v) \cap {spot} = {} /\ v # w
      BY <1>1, <1>7, Apart DEF LaidOut
    <3>2. drawn'[v] = drawn[v]
      BY <1>3, <1>13, <2>2, <3>1
    <3> QED BY <2>4, <3>1, <3>2, TextElsewhere
  <2>13. \A v \in drv.icons : IconLaid(v, layout, icon'[v], drawn'[v])
    <3> SUFFICES ASSUME NEW v \in drv.icons PROVE IconLaid(v, layout, icon'[v], drawn'[v])
      OBVIOUS
    <3>1. CASE v # w
      <4>1. IconLaid(v, LayoutFB, icon[v], drawn[v]) /\ AreaOfIcon(v) \cap {spot} = {}
        BY <1>1, <1>7, <3>1, Apart DEF LaidOut
      <4>2. drawn'[v] = drawn[v] /\ icon'[v] = icon[v]
        BY <1>3, <1>8, <1>13, <2>2, <3>1
      <4> QED BY <2>4, <4>1, <4>2, IconElsewhere
    <3>2. CASE v = w
      <4>1. drawn'[w] = <<IF visible THEN map ELSE "blank">> /\ icon'[w] = [ascii |-> ascii, prvmap |-> known]
        BY <1>3, <1>8, <1>13, <2>2
      <4>2. visible => known = map
        BY <2>1 DEF known, Redefine
      <4> QED BY <1>2, <1>7, <2>1, <2>3, <3>2, <4>1, <4>2 DEF IconLaid
    <3> QED BY <3>1, <3>2
  <2>14. LaidOut'
    BY <1>3, <1>13, <2>12, <2>13 DEF LaidOut, TextLaid, IconLaid
  <2>15. DOMAIN DisplayFB' = Addresses /\ DOMAIN device' = Addresses
    BY <1>1, <1>3, <1>13, <2>8, BlitShows
  <2>16. TextTypes'
    <3>0. looks = [c \in Definable(drv) |-> looks[c]]
      <4>1. CASE redefined
        BY <2>2, <4>1 DEF looks
      <4>2. CASE ~redefined
        BY <1>1, <4>2 DEF looks, TextTypes
      <4> QED BY <4>1, <4>2
    <3>1. DOMAIN LayoutFB' = Cells(LROWS', LCOLS') /\ glyphs' = [c \in Definable(drv) |-> glyphs'[c]]
      BY <1>3, <1>13, <2>3, <3>0
    <3>2. DOMAIN icon' = drv.icons /\ DOMAIN drawn' = drv.texts \cup drv.icons \cup drv.bars
      BY <1>3, <1>5, <1>13, <2>2
    <3> QED BY <1>1, <1>3, <1>4, <1>9, <2>15, <3>1, <3>2 DEF TextTypes, Addresses
  <2>17. OnTheDisplay'
    <3> SUFFICES ASSUME NEW cell \in Own \cap Cells(DROWS, DCOLS)
                 PROVE  AsLaidOut(cell, layout, DisplayFB', device', looks)
      BY <1>3, <1>13 DEF OnTheDisplay, Own, AsLaidOut
    <3>1. cell \in DOMAIN layout /\ cell \in DOMAIN LayoutFB /\ Address(cell) \in Addresses
      BY <1>1, <1>5, <2>4, DisplayCells DEF Redrawn
    <3>2. layout[cell] \notin Complements(drv)
      BY <1>1, <2>9, <2>12, <2>13, <3>1, LaidChars
    <3>3. cell # spot => layout[cell] = LayoutFB[cell]
      BY <2>4, <3>1 DEF Redrawn
    <3>4. AsLaidOut(cell, LayoutFB, DisplayFB, device, glyphs)
      BY <1>1 DEF OnTheDisplay
    <3>5. Invalidated(layout, invalid)[Address(cell)] \in {DisplayFB[Address(cell)]} \cup Complements(drv)
      BY <2>8, <3>1
    <3>6. ASSUME drv.INVALIDATE, cell \in {spot} => Invalidated(layout, invalid)[Address(cell)] = layout[cell]
          PROVE  LookOf(layout[cell], looks) = LookOf(layout[cell], glyphs)
      <4>1. CASE ~redefined
        BY <4>1, <2>6 DEF LookOf
      <4>2. CASE redefined
        <5>1. cell # spot
          BY <2>7, <2>8, <3>1, <3>6, <4>2
        <5>2. layout[cell] # ascii
          <6>1. CASE \E v \in drv.texts : cell \in AreaOfText(v)
            <7>1. layout[cell] \in Written(drv)
              BY <2>12, <3>1, <6>1 DEF TextLaid
            <7> QED BY <1>1, <2>1, <2>2, <7>1, CharsApart
          <6>2. CASE \E v \in drv.icons : cell \in AreaOfIcon(v)
            <7>1. PICK v \in drv.icons : cell \in AreaOfIcon(v)
              BY <6>2
            <7>2. v # w
              BY <1>7, <5>1, <7>1
            <7>3. layout[cell] = Blank \/ (icon[v].ascii >= 0 /\ layout[cell] = icon[v].ascii)
              BY <1>8, <2>13, <3>1, <7>1, <7>2 DEF IconLaid
            <7>4. Blank \in Written(drv)
              BY DEF Written
            <7>5. Blank # ascii
              BY <1>1, <2>1, <2>2, <7>4, CharsApart
            <7> QED BY <2>10, <7>2, <7>3, <7>5
          <6> QED BY <6>1, <6>2 DEF Own
        <5> QED BY <2>6, <5>2 DEF LookOf
      <4> QED BY <4>1, <4>2
    <3> QED BY <1>1, <1>3, <1>13, <2>8, <3>2, <3>3, <3>4, <3>5, <3>6, BlitKeeps
  <2> QED BY <1>10, <2>1, <2>11, <2>14, <2>16, <2>17 DEF TextInv, IconsApart
<1> QED BY <1>12, <1>13

-----------------------------------------------------------------------------
(* The segments of bars. *)

\* No fixed segment goes.
LEMMA UsedSegmentsKept ==
    ASSUME drv \in TextSetups, BarsInPlace
    PROVE  UsedSegments \in Seq(SegmentRecord) /\ Len(UsedSegments) >= fSegment
<1> DEFINE N == Len(Segment)
           S == Seq(SegmentRecord)
           Step(s, i) == IF i <= fSegment \/ Segment[i].used THEN Append(s, Segment[i]) ELSE s
           packed == CHOOSE f : f = [i \in 0..N |-> IF i = 0 THEN <<>>
                                                    ELSE IF i <= fSegment \/ Segment[i].used THEN Append(f[i - 1], Segment[i])
                                                    ELSE f[i - 1]]
           next == [i \in 1..N |-> [s \in S |-> Step(s, i)]]
           T == {i \in 0..N : packed[i] \in S /\ (Len(packed[i]) >= i \/ Len(packed[i]) >= fSegment)}
<1>1. Segment \in S /\ N \in Nat /\ fSegment \in Nat /\ N >= fSegment
  BY OfSetup DEF BarsInPlace, fSegment
<1>2. \A i \in 1..N, s \in S : Step(s, i) \in S
  BY <1>1
<1>3. next \in Steps(N, S) /\ <<>> \in S
  BY <1>2 DEF Steps
<1>4. PICK g : Iterates(g, N, S, <<>>, next)
  <2>1. N \in Nat
    BY <1>1
  <2> HIDE DEF N, S, next
  <2> QED BY <1>3, <2>1, Iteration
<1>5. g \in [0..N -> S] /\ g[0] = <<>> /\ \A i \in 1..N : g[i] = next[i][g[i - 1]]
  BY <1>4 DEF Iterates
<1>6. \A i \in 1..N : g[i] = Step(g[i - 1], i)
  <2> SUFFICES ASSUME NEW i \in 1..N PROVE g[i] = Step(g[i - 1], i)
    OBVIOUS
  <2>1. i - 1 \in 0..N
    BY <1>1
  <2>2. g[i - 1] \in S
    BY <1>5, <2>1
  <2> QED BY <1>5, <2>2
<1>7. \A i \in 0..N : g[i] = IF i = 0 THEN <<>> ELSE Step(g[i - 1], i)
  <2>1. \A i \in 0..N : i = 0 \/ i \in 1..N
    BY <1>1
  <2> HIDE DEF Step
  <2> QED BY <1>5, <1>6, <2>1
<1>8. packed = [i \in 0..N |-> IF i = 0 THEN <<>>
                               ELSE IF i <= fSegment \/ Segment[i].used THEN Append(packed[i - 1], Segment[i])
                               ELSE packed[i - 1]]
  <2>1. g = [i \in 0..N |-> IF i = 0 THEN <<>>
                            ELSE IF i <= fSegment \/ Segment[i].used THEN Append(g[i - 1], Segment[i])
                            ELSE g[i - 1]]
    BY <1>5, <1>7
  <2> QED BY <2>1
<1> HIDE DEF packed
<1>9. 0 \in T
  BY <1>1, <1>8
<1>10. ASSUME NEW i \in 1..N, i - 1 \in T PROVE i \in T
  <2>0. i \in 0..N /\ i \in Nat /\ i # 0 /\ packed[i - 1] \in S
    BY <1>1, <1>10
  <2>1. packed[i] = Step(packed[i - 1], i) /\ packed[i - 1] \in S /\ i \in 0..N /\ i \in Nat
    BY <1>8, <2>0
  <2>2. Len(packed[i - 1]) \in Nat /\ (Len(packed[i - 1]) >= i - 1 \/ Len(packed[i - 1]) >= fSegment)
    BY <1>10, <2>0
  <2>3. Len(packed[i]) >= i \/ Len(packed[i]) >= fSegment
    <3>1. CASE i <= fSegment \/ Segment[i].used
      <4>1. Len(packed[i]) = Len(packed[i - 1]) + 1
        BY <1>1, <2>0, <2>1, <3>1
      <4> QED BY <1>1, <2>0, <2>2, <4>1
    <3>2. CASE ~(i <= fSegment \/ Segment[i].used)
      BY <1>1, <2>0, <2>1, <2>2, <3>2
    <3> QED BY <3>1, <3>2
  <2>4. packed[i] \in S
    BY <1>2, <2>1
  <2> QED BY <2>0, <2>3, <2>4
<1>11. N \in T
  <2> HIDE DEF N, T
  <2>1. \A i \in 1..N : i - 1 \in T => i \in T
    BY <1>10
  <2>2. \A i \in 0..N : i \in T
    BY <1>1, <1>9, <2>1, InductionUpto
  <2> QED BY <1>1, <2>2
<1>12. UsedSegments = packed[N]
  BY DEF UsedSegments, packed
<1> QED BY <1>1, <1>11, <1>12

\* The cells of bars, and what is created for them: the fixed segments and more, and a
\* segment for every cell.
CellsOfBars(fb) == {cell \in DOMAIN fb : fb[cell].dir # {}}
SegmentsOf(fb) == UNION {[D -> Nat] : D \in SUBSET CellsOfBars(fb)}
Created(fb) == [segs : {segs \in Seq(SegmentRecord) : Len(segs) >= fSegment}, at : SegmentsOf(fb)]

LEMMA ServeKeeps ==
    ASSUME NEW fb, InPlace(fb), NEW cell \in DOMAIN fb, NEW acc \in Created(fb), fSegment \in Nat
    PROVE  Serve(acc, fb, cell) \in Created(fb)
<1> DEFINE bar == fb[cell]
           serving == {i \in DOMAIN acc.segs : Serves(acc.segs[i], bar)}
           By(i) == [c \in DOMAIN acc.at \cup {cell} |-> IF c = cell THEN i ELSE acc.at[c]]
           new == [val1 |-> bar.val1, val2 |-> bar.val2, dir |-> bar.dir, style |-> bar.style,
                   used |-> FALSE, ascii |-> -1]
<1>1. acc.segs \in Seq(SegmentRecord) /\ Len(acc.segs) \in Nat /\ Len(acc.segs) >= fSegment /\ DOMAIN acc.segs = 1..Len(acc.segs)
  BY DEF Created
<1>2. PICK D \in SUBSET CellsOfBars(fb) : acc.at \in [D -> Nat]
  BY DEF Created, SegmentsOf
<1>3. bar \in BarRecord
  BY DEF InPlace
<1>4. new \in SegmentRecord
  BY <1>3 DEF BarRecord, SegmentRecord
<1>5. ASSUME bar.dir # {}, NEW i \in Nat PROVE By(i) \in SegmentsOf(fb)
  <2>1. D \cup {cell} \in SUBSET CellsOfBars(fb)
    BY <1>5 DEF CellsOfBars
  <2>2. By(i) \in [D \cup {cell} -> Nat]
    BY <1>2
  <2> HIDE DEF By
  <2> QED BY <2>1, <2>2 DEF SegmentsOf
<1>6. serving # {} => Min(serving) \in Nat
  <2>1. serving \in SUBSET Nat
    BY <1>1
  <2> HIDE DEF serving
  <2> QED BY <2>1, Least
<1>7. CASE bar.dir = {}
  BY <1>7 DEF Serve
<1>8. CASE bar.dir # {} /\ serving # {}
  <2>1. Serve(acc, fb, cell) = [segs |-> acc.segs, at |-> By(Min(serving))]
    BY <1>8 DEF Serve
  <2>2. By(Min(serving)) \in SegmentsOf(fb)
    BY <1>5, <1>6, <1>8
  <2> HIDE DEF By, serving
  <2> QED BY <1>1, <2>1, <2>2 DEF Created
<1>9. CASE bar.dir # {} /\ serving = {}
  <2>1. Serve(acc, fb, cell) = [segs |-> Append(acc.segs, new), at |-> By(Len(acc.segs) + 1)]
    BY <1>9 DEF Serve
  <2>2. By(Len(acc.segs) + 1) \in SegmentsOf(fb)
    <3>1. Len(acc.segs) + 1 \in Nat
      BY <1>1
    <3> HIDE DEF By
    <3> QED BY <1>5, <1>9, <3>1
  <2>3. Append(acc.segs, new) \in Seq(SegmentRecord) /\ Len(Append(acc.segs, new)) >= fSegment
    <3> HIDE DEF new
    <3>1. Append(acc.segs, new) \in Seq(SegmentRecord) /\ Len(Append(acc.segs, new)) = Len(acc.segs) + 1
      BY <1>1, <1>4
    <3> QED BY <1>1, <3>1
  <2> HIDE DEF By, serving, new
  <2> QED BY <2>1, <2>2, <2>3 DEF Created
<1> QED BY <1>7, <1>8, <1>9

LEMMA CreateSegmentsCreates ==
    ASSUME drv \in TextSetups, BarsInPlace, NEW rows \in Nat, NEW cols \in Nat \ {0},
           NEW fb, InPlace(fb), DOMAIN fb = Cells(rows, cols)
    PROVE  CreateSegments(fb, rows, cols) \in Created(fb)
<1> DEFINE N == rows * cols
           S == Created(fb)
           Cell(i) == <<(i - 1) \div cols, (i - 1) % cols>>
           first == [segs |-> UsedSegments, at |-> <<>>]
           served == CHOOSE f : f = [i \in 0..N |-> IF i = 0 THEN first ELSE Serve(f[i - 1], fb, Cell(i))]
           next == [i \in 1..N |-> [s \in S |-> Serve(s, fb, Cell(i))]]
<1>1. N \in Nat /\ fSegment \in Nat
  BY OfSetup DEF fSegment
<1>2. first \in S
  <2>1. <<>> \in SegmentsOf(fb)
    <3>1. <<>> \in [{} -> Nat]
      OBVIOUS
    <3>2. {} \in SUBSET CellsOfBars(fb)
      OBVIOUS
    <3> QED BY <3>1, <3>2 DEF SegmentsOf
  <2> QED BY <2>1, UsedSegmentsKept DEF Created
<1>3. ASSUME NEW i \in 1..N, NEW s \in S PROVE Serve(s, fb, Cell(i)) \in S
  <2>1. i - 1 \in 0..rows * cols - 1
    BY <1>1
  <2>2. Cell(i) \in DOMAIN fb
    BY <2>1, CellOfNumber
  <2> HIDE DEF Cell
  <2> QED BY <1>1, <2>2, ServeKeeps
<1> HIDE DEF N, S, first, Cell
<1>4. next \in Steps(N, S)
  BY <1>3 DEF Steps
<1>5. PICK g : Iterates(g, N, S, first, next)
  <2> HIDE DEF next
  <2> QED BY <1>1, <1>2, <1>4, Iteration
<1>6. g \in [0..N -> S] /\ g[0] = first /\ \A i \in 1..N : g[i] = next[i][g[i - 1]]
  BY <1>5 DEF Iterates
<1>7. \A i \in 1..N : g[i] = Serve(g[i - 1], fb, Cell(i))
  <2> SUFFICES ASSUME NEW i \in 1..N PROVE g[i] = Serve(g[i - 1], fb, Cell(i))
    OBVIOUS
  <2>1. i - 1 \in 0..N
    BY <1>1
  <2>2. g[i - 1] \in S
    BY <1>6, <2>1
  <2> QED BY <1>6, <2>2
<1>8. served = [i \in 0..N |-> IF i = 0 THEN first ELSE Serve(served[i - 1], fb, Cell(i))]
  <2>1. \A i \in 0..N : i = 0 \/ i \in 1..N
    BY <1>1
  <2>2. \A i \in 0..N : g[i] = IF i = 0 THEN first ELSE Serve(g[i - 1], fb, Cell(i))
    BY <1>6, <1>7, <2>1
  <2>3. g = [i \in 0..N |-> IF i = 0 THEN first ELSE Serve(g[i - 1], fb, Cell(i))]
    BY <1>6, <2>2
  <2> QED BY <2>3
<1>9. CreateSegments(fb, rows, cols) = served[N]
  BY DEF CreateSegments, served, N, first, Cell
<1> HIDE DEF served
<1>10. served[0] \in S
  BY <1>1, <1>2, <1>8
<1>11. ASSUME NEW i \in 1..N, served[i - 1] \in S PROVE served[i] \in S
  <2>1. i \in 0..N /\ i # 0
    BY <1>1
  <2>2. served[i] = Serve(served[i - 1], fb, Cell(i))
    BY <1>8, <2>1
  <2> QED BY <1>3, <1>11, <2>2
<1>12. served[N] \in S
  BY <1>1, <1>10, <1>11, Stays
<1> QED BY <1>9, <1>12 DEF S

\* The square of a number is not negative.
LEMMA Square == \A x \in Int : x * x \in Nat
<1> SUFFICES ASSUME NEW x \in Int PROVE x * x \in Nat
  OBVIOUS
<1>1. CASE x \in Nat
  BY <1>1
<1>2. CASE -x \in Nat
  <2>1. PICK y \in Nat : x = -y
    BY <1>2
  <2>2. (-y) * (-y) = y * y
    OBVIOUS
  <2> QED BY <2>1, <2>2
<1> QED BY <1>1, <1>2

\* Errors are numbers.
LEMMA Smaller ==
    ASSUME NEW a \in Int, NEW b \in Int
    PROVE  Min({a, b}) \in Int /\ Min({a, b}) \in {a, b} /\ Min({a, b}) <= a /\ Min({a, b}) <= b
<1>1. \E m \in {a, b} : \A k \in {a, b} : m <= k
  <2>1. CASE a <= b BY <2>1
  <2>2. CASE b <= a BY <2>2
  <2> QED BY <2>1, <2>2
<1>2. Min({a, b}) \in {a, b} /\ \A k \in {a, b} : Min({a, b}) <= k
  BY <1>1 DEF Min
<1> QED BY <1>2

LEMMA ErrorNat ==
    ASSUME drv \in TextSetups, NEW a \in SegmentRecord, NEW b \in SegmentRecord
    PROVE  SegmentError(a, b) \in Nat
<1> DEFINE res == Res(a.dir)
           i1 == Min({a.val1, res})
           i2 == Min({a.val2, res})
           j1 == Min({b.val1, res})
           j2 == Min({b.val2, res})
<1>1. res \in Int
  BY OfSetup DEF Res
<1>2. a.val1 \in Int /\ a.val2 \in Int /\ b.val1 \in Int /\ b.val2 \in Int
  BY DEF SegmentRecord
<1>3. i1 \in Int /\ i2 \in Int /\ j1 \in Int /\ j2 \in Int
  <2> HIDE DEF res
  <2> QED BY <1>1, <1>2, Smaller
<1> DEFINE e == (i1 - j1) * (i1 - j1) + (i2 - j2) * (i2 - j2)
<1>4. e \in Nat
  <2> HIDE DEF i1, i2, j1, j2
  <2>1. PICK x \in Int, y \in Int : x = i1 - j1 /\ y = i2 - j2
    BY <1>3
  <2>2. x * x \in Nat /\ y * y \in Nat
    BY Square
  <2> QED BY <2>1, <2>2
<1>5. SegmentError(a, b) = Never \/ SegmentError(a, b) = e
  BY DEF SegmentError
<1> QED BY <1>4, <1>5 DEF Never

\* Among triples of numbers is one that is the least in its first, and then in the others.
LEMMA Cheapest ==
    ASSUME NEW E \in SUBSET (Nat \X Nat \X Nat), E # {}
    PROVE  \E e \in E : e[1] = Min({x[1] : x \in E}) /\ \A f \in E :
               f[1] = Min({x[1] : x \in E}) => e = f \/ Before(Tail(e), Tail(f))
<1> DEFINE c == Min({x[1] : x \in E})
           F == {x \in E : x[1] = c}
           r == Min({x[2] : x \in F})
           G == {x \in F : x[2] = r}
           s == Min({x[3] : x \in G})
<1>1. ASSUME NEW x \in E PROVE x = <<x[1], x[2], x[3]>> /\ x[1] \in Nat /\ x[2] \in Nat /\ x[3] \in Nat
  OBVIOUS
<1>2. c \in {x[1] : x \in E} /\ F # {}
  <2>1. {x[1] : x \in E} \in SUBSET Nat /\ {x[1] : x \in E} # {}
    BY <1>1
  <2>2. Min({x[1] : x \in E}) \in {x[1] : x \in E}
    BY <2>1, Least
  <2> QED BY <2>2
<1> HIDE DEF c
<1>3. r \in {x[2] : x \in F} /\ \A k \in {x[2] : x \in F} : r <= k
  <2>1. {x[2] : x \in F} \in SUBSET Nat /\ {x[2] : x \in F} # {}
    BY <1>1, <1>2
  <2> HIDE DEF F
  <2> QED BY <2>1, Least
<1>4. G # {}
  BY <1>3
<1> HIDE DEF r
<1>5. s \in {x[3] : x \in G} /\ \A k \in {x[3] : x \in G} : s <= k
  <2>1. {x[3] : x \in G} \in SUBSET Nat /\ {x[3] : x \in G} # {}
    BY <1>1, <1>4
  <2> HIDE DEF G
  <2> QED BY <2>1, Least
<1> HIDE DEF s
<1>6. PICK e \in E : e[1] = c /\ e[2] = r /\ e[3] = s
  BY <1>5
<1>7. ASSUME NEW f \in E, f[1] = c PROVE e = f \/ Before(Tail(e), Tail(f))
  <2>1. f \in F /\ r <= f[2]
    BY <1>3, <1>7
  <2>2. f[2] = r => s <= f[3]
    BY <1>5, <2>1
  <2>3. Tail(e) = <<e[2], e[3]>> /\ Tail(f) = <<f[2], f[3]>>
    <3>1. e = <<e[1], e[2], e[3]>> /\ f = <<f[1], f[2], f[3]>>
      BY <1>1
    <3>2. \A x, y, z : Tail(<<x, y, z>>) = <<y, z>>
      OBVIOUS
    <3> QED BY <3>1, <3>2
  <2>4. Tail(e)[1] = r /\ Tail(e)[2] = s /\ Tail(f)[1] = f[2] /\ Tail(f)[2] = f[3]
    BY <1>6, <2>3
  <2>5. CASE f[2] = r /\ f[3] = s
    BY <1>1, <1>6, <1>7, <2>5
  <2>6. CASE ~(f[2] = r /\ f[3] = s)
    BY <1>1, <1>6, <2>1, <2>2, <2>4, <2>6 DEF Before
  <2> QED BY <2>5, <2>6
<1> QED BY <1>6, <1>7 DEF c

\* What is packed: L segments, n of them in use, and what cells and errors know of them.
SegmentArray(L) == [1..L -> SegmentRecord]
ErrorArray(L) == [1..L -> Nat]
Counts(L) == 0..L
Passes == BOOLEAN
Outcomes == {"exactly", "well", "not", "by itself"}
Packing(L, fb) ==
    [segs : SegmentArray(L), n : Counts(L), at : SegmentsOf(fb), diagonal : ErrorArray(L),
     pass1 : Passes, packed : Outcomes]
LEMMA IsPacking ==
    ASSUME NEW L, NEW fb, NEW segs \in SegmentArray(L), NEW n \in Counts(L), NEW at \in SegmentsOf(fb),
           NEW diagonal \in ErrorArray(L), NEW pass1 \in Passes, NEW packed \in Outcomes
    PROVE  [segs |-> segs, n |-> n, at |-> at, diagonal |-> diagonal, pass1 |-> pass1, packed |-> packed] \in Packing(L, fb)
BY DEF Packing

RoundsLeft(p) == p.n + (IF p.pass1 THEN 1 ELSE 0)

\* Where there is nothing to do, nothing is done.
LEMMA PackOnceRests ==
    ASSUME NEW p, p.n <= fSegment + BarChars
    PROVE  PackOnce(p) = p
<1> DEFINE candidates == {i \in fSegment + 1..p.n : ~(p.pass1 /\ p.segs[i].used)}
           Error(i, j) == IF i = j THEN p.diagonal[i] ELSE SegmentError(p.segs[i], p.segs[j])
           errors == {<<Error(i, j), i, j>> : i \in candidates, j \in 1..p.n}
           cheapest == Min({e[1] : e \in errors})
           best == CHOOSE e \in errors : e[1] = cheapest /\ \A f \in errors :
                       f[1] = cheapest => e = f \/ Before(Tail(e), Tail(f))
           moved == [p EXCEPT !.segs[best[2]] = p.segs[p.n], !.n = @ - 1,
                        !.at = [cell \in DOMAIN @ |-> Relocated(@[cell], best[2], best[3], p.n)],
                        !.diagonal[best[2]] = Error(best[2], p.n),
                        !.packed = IF best[2] = best[3] THEN "by itself" ELSE IF @ = "exactly" THEN "well" ELSE @]
           dull == \A e \in errors : e[1] = Never
<1>1. PackOnce(p) = IF p.n <= fSegment + BarChars THEN p
                    ELSE IF dull THEN IF p.pass1 THEN [p EXCEPT !.pass1 = FALSE]
                                      ELSE [p EXCEPT !.n = BarChars, !.packed = "not"]
                    ELSE moved
  BY DEF PackOnce
<1> HIDE DEF dull, moved
<1> QED BY <1>1

\* A round leaves less to do, or there is nothing to do.
LEMMA PackOnceKeeps ==
    ASSUME drv \in TextSetups, NEW L \in Nat, NEW fb, NEW p \in Packing(L, fb)
    PROVE  /\ PackOnce(p) \in Packing(L, fb)
           /\ \/ PackOnce(p).n <= fSegment + BarChars
              \/ RoundsLeft(PackOnce(p)) = RoundsLeft(p) - 1
<1> DEFINE candidates == {i \in fSegment + 1..p.n : ~(p.pass1 /\ p.segs[i].used)}
           Error(i, j) == IF i = j THEN p.diagonal[i] ELSE SegmentError(p.segs[i], p.segs[j])
           errors == {<<Error(i, j), i, j>> : i \in candidates, j \in 1..p.n}
           cheapest == Min({e[1] : e \in errors})
           best == CHOOSE e \in errors : e[1] = cheapest /\ \A f \in errors :
                       f[1] = cheapest => e = f \/ Before(Tail(e), Tail(f))
           moved == [p EXCEPT !.segs[best[2]] = p.segs[p.n], !.n = @ - 1,
                        !.at = [cell \in DOMAIN @ |-> Relocated(@[cell], best[2], best[3], p.n)],
                        !.diagonal[best[2]] = Error(best[2], p.n),
                        !.packed = IF best[2] = best[3] THEN "by itself" ELSE IF @ = "exactly" THEN "well" ELSE @]
           dull == \A e \in errors : e[1] = Never
<1>11. PackOnce(p) = IF p.n <= fSegment + BarChars THEN p
                     ELSE IF dull THEN IF p.pass1 THEN [p EXCEPT !.pass1 = FALSE]
                                       ELSE [p EXCEPT !.n = BarChars, !.packed = "not"]
                     ELSE moved
  BY DEF PackOnce
<1> HIDE DEF dull, moved
<1>1. fSegment \in Nat /\ drv.CHARS \in Nat /\ drv.ICONS \in 0..drv.CHARS
  BY OfSetup DEF fSegment
<1>2. BarChars \in Nat
  BY <1>1 DEF BarChars
<1>3. p.segs \in SegmentArray(L) /\ p.at \in SegmentsOf(fb) /\ p.diagonal \in ErrorArray(L)
  BY DEF Packing
<1>9. p.pass1 \in Passes /\ p.packed \in Outcomes /\ FALSE \in Passes /\ "not" \in Outcomes
  BY DEF Packing, Passes, Outcomes
<1>12. p.n \in Counts(L)
  BY DEF Packing
<1>10. p.n \in 0..L /\ p.n \in Int
  BY <1>12 DEF Counts
<1>0. p = [segs |-> p.segs, n |-> p.n, at |-> p.at, diagonal |-> p.diagonal, pass1 |-> p.pass1, packed |-> p.packed]
  BY DEF Packing
<1>4. CASE p.n <= fSegment + BarChars
  BY <1>4, <1>11
<1>5. CASE ~(p.n <= fSegment + BarChars) /\ dull /\ p.pass1
  <2>1. PackOnce(p) = [p EXCEPT !.pass1 = FALSE]
    BY <1>5, <1>11
  <2>2. PackOnce(p) = [segs |-> p.segs, n |-> p.n, at |-> p.at, diagonal |-> p.diagonal, pass1 |-> FALSE, packed |-> p.packed]
    BY <1>0, <2>1
  <2>3. PackOnce(p) \in Packing(L, fb)
    BY <1>3, <1>9, <1>12, <2>2, IsPacking
  <2>4. RoundsLeft(PackOnce(p)) = RoundsLeft(p) - 1
    BY <1>10, <1>5, <2>2 DEF RoundsLeft
  <2> QED BY <2>3, <2>4
<1>6. CASE ~(p.n <= fSegment + BarChars) /\ dull /\ ~p.pass1
  <2>1. PackOnce(p) = [p EXCEPT !.n = BarChars, !.packed = "not"]
    BY <1>6, <1>11
  <2>2. PackOnce(p) = [segs |-> p.segs, n |-> BarChars, at |-> p.at, diagonal |-> p.diagonal, pass1 |-> p.pass1, packed |-> "not"]
    BY <1>0, <2>1
  <2>3. BarChars \in Counts(L)
    BY <1>1, <1>2, <1>10, <1>6 DEF Counts
  <2>4. PackOnce(p) \in Packing(L, fb)
    BY <1>3, <1>9, <2>2, <2>3, IsPacking
  <2>5. PackOnce(p).n <= fSegment + BarChars
    BY <1>1, <1>2, <2>2
  <2> QED BY <2>4, <2>5
<1>7. CASE ~(p.n <= fSegment + BarChars) /\ ~dull
  <2>1. PackOnce(p) = moved
    BY <1>7, <1>11
  <2>2. p.n \in 1..L /\ p.n - 1 \in 0..L
    BY <1>1, <1>2, <1>10, <1>7
  <2>3. \A i \in candidates : i \in 1..p.n /\ i \in 1..L
    BY <1>1, <1>10
  <2>4. \A i \in 1..L, j \in 1..L : Error(i, j) \in Nat
    <3> SUFFICES ASSUME NEW i \in 1..L, NEW j \in 1..L PROVE Error(i, j) \in Nat
      OBVIOUS
    <3>1. p.segs[i] \in SegmentRecord /\ p.segs[j] \in SegmentRecord /\ p.diagonal[i] \in Nat
      BY <1>3 DEF SegmentArray, ErrorArray
    <3> QED BY <3>1, ErrorNat
  <2>5. \A j \in 1..p.n : j \in 1..L /\ j \in Nat
    BY <1>10
  <2> HIDE DEF Error, candidates
  <2>6. errors \in SUBSET (Nat \X Nat \X Nat)
    <3> SUFFICES ASSUME NEW i \in candidates, NEW j \in 1..p.n PROVE <<Error(i, j), i, j>> \in Nat \X Nat \X Nat
      OBVIOUS
    <3>1. i \in 1..L /\ i \in Nat /\ j \in 1..L /\ j \in Nat
      BY <2>3, <2>5
    <3> QED BY <2>4, <3>1
  <2>7. errors # {}
    BY <1>7 DEF dull
  <2>8. best \in errors
    <3> HIDE DEF errors
    <3>1. \E e \in errors : e[1] = cheapest /\ \A f \in errors : f[1] = cheapest => e = f \/ Before(Tail(e), Tail(f))
      BY <2>6, <2>7, Cheapest
    <3> QED BY <3>1
  <2>9. PICK i \in candidates, j \in 1..p.n : best[2] = i /\ best[3] = j
    <3>1. PICK i \in candidates, j \in 1..p.n : best = <<Error(i, j), i, j>>
      <4> HIDE DEF best
      <4> QED BY <2>8
    <3> HIDE DEF best
    <3> QED BY <3>1
  <2> HIDE DEF best, errors
  <2>10. i \in 1..L /\ j \in 1..L /\ i \in Nat /\ j \in Nat /\ p.n \in 1..L
    BY <2>2, <2>3, <2>5
  <2> DEFINE at == [cell \in DOMAIN p.at |-> Relocated(p.at[cell], i, j, p.n)]
             how == IF i = j THEN "by itself" ELSE IF p.packed = "exactly" THEN "well" ELSE p.packed
  <2>11. moved = [segs |-> [p.segs EXCEPT ![i] = p.segs[p.n]], n |-> p.n - 1, at |-> at,
                  diagonal |-> [p.diagonal EXCEPT ![i] = Error(i, p.n)], pass1 |-> p.pass1, packed |-> how]
    <3>1. best[2] = i /\ best[3] = j
      BY <2>9
    <3>2. moved = [p EXCEPT !.segs[i] = p.segs[p.n], !.n = @ - 1,
                      !.at = [cell \in DOMAIN @ |-> Relocated(@[cell], i, j, p.n)],
                      !.diagonal[i] = Error(i, p.n),
                      !.packed = IF i = j THEN "by itself" ELSE IF @ = "exactly" THEN "well" ELSE @]
      BY <3>1 DEF moved
    <3> QED BY <1>0, <3>2
  <2>12. at \in SegmentsOf(fb)
    <3>1. PICK D \in SUBSET CellsOfBars(fb) : p.at \in [D -> Nat]
      BY <1>3, <1>9, <1>10 DEF SegmentsOf
    <3>2. at \in [D -> Nat]
      BY <2>10, <3>1 DEF Relocated
    <3> HIDE DEF at
    <3> QED BY <3>2 DEF SegmentsOf
  <2>13. [p.segs EXCEPT ![i] = p.segs[p.n]] \in SegmentArray(L)
    BY <1>3, <2>10 DEF SegmentArray
  <2>14. [p.diagonal EXCEPT ![i] = Error(i, p.n)] \in ErrorArray(L)
    BY <1>3, <2>4, <2>10 DEF ErrorArray
  <2>15. how \in Outcomes /\ p.n - 1 \in Counts(L)
    BY <1>9, <2>2 DEF Outcomes, Counts
  <2> HIDE DEF moved, at, how
  <2>16. PackOnce(p) \in Packing(L, fb)
    BY <1>9, <2>1, <2>11, <2>12, <2>13, <2>14, <2>15, IsPacking
  <2>17. RoundsLeft(PackOnce(p)) = RoundsLeft(p) - 1
    BY <1>10, <2>1, <2>11 DEF RoundsLeft
  <2> QED BY <2>16, <2>17
<1> QED BY <1>4, <1>5, <1>6, <1>7

\* So there are chars for all segments in the end.
LEMMA PackSegmentsPacks ==
    ASSUME drv \in TextSetups, NEW fb, NEW created \in Created(fb)
    PROVE  /\ PackSegments(created) \in Packing(Len(created.segs), fb)
           /\ PackSegments(created).n <= fSegment + BarChars
<1> DEFINE L == Len(created.segs)
           N == L + 1
           S == Packing(L, fb)
           first == [segs |-> created.segs, n |-> L, at |-> created.at,
                     diagonal |-> [i \in DOMAIN created.segs |-> Never], pass1 |-> TRUE, packed |-> "exactly"]
           packs == CHOOSE f : f = [k \in 0..N |-> IF k = 0 THEN first ELSE PackOnce(f[k - 1])]
           next == [k \in 1..N |-> [p \in S |-> PackOnce(p)]]
           T == {k \in 0..N : packs[k] \in S /\ (packs[k].n <= fSegment + BarChars \/ RoundsLeft(packs[k]) <= N - k)}
<1>1. created.segs \in Seq(SegmentRecord) /\ created.at \in SegmentsOf(fb)
  BY DEF Created
<1>2. L \in Nat /\ N \in Nat /\ DOMAIN created.segs = 1..L
  BY <1>1
<1>3. fSegment \in Nat /\ BarChars \in Nat
  BY OfSetup DEF fSegment, BarChars
<1>4. first \in S
  <2>1. created.segs \in SegmentArray(L)
    BY <1>1, <1>2 DEF SegmentArray
  <2>2. [i \in DOMAIN created.segs |-> Never] \in ErrorArray(L)
    BY <1>2 DEF ErrorArray, Never
  <2>3. L \in Counts(L) /\ TRUE \in Passes /\ "exactly" \in Outcomes
    BY <1>2 DEF Counts, Passes, Outcomes
  <2> QED BY <1>1, <2>1, <2>2, <2>3, IsPacking
<1>5. \A p \in S : PackOnce(p) \in S
  BY <1>2, PackOnceKeeps
<1>6. RoundsLeft(first) = N - 0
  BY <1>2 DEF RoundsLeft
<1>7. PackSegments(created) = packs[N]
  BY DEF PackSegments
<1> HIDE DEF S, first
<1>8. next \in Steps(N, S)
  BY <1>5 DEF Steps
<1>9. PICK g : Iterates(g, N, S, first, next)
  <2> HIDE DEF next, N
  <2> QED BY <1>2, <1>4, <1>8, Iteration
<1>10. g \in [0..N -> S] /\ g[0] = first /\ \A k \in 1..N : g[k] = next[k][g[k - 1]]
  BY <1>9 DEF Iterates
<1> HIDE DEF N
<1>11. \A k \in 1..N : g[k] = PackOnce(g[k - 1])
  <2> SUFFICES ASSUME NEW k \in 1..N PROVE g[k] = PackOnce(g[k - 1])
    OBVIOUS
  <2>1. k - 1 \in 0..N
    BY <1>2
  <2>2. g[k - 1] \in S
    BY <1>10, <2>1
  <2> QED BY <1>10, <2>2
<1>12. packs = [k \in 0..N |-> IF k = 0 THEN first ELSE PackOnce(packs[k - 1])]
  <2>1. \A k \in 0..N : k = 0 \/ k \in 1..N
    BY <1>2
  <2>2. \A k \in 0..N : g[k] = IF k = 0 THEN first ELSE PackOnce(g[k - 1])
    BY <1>10, <1>11, <2>1
  <2>3. g = [k \in 0..N |-> IF k = 0 THEN first ELSE PackOnce(g[k - 1])]
    BY <1>10, <2>2
  <2> QED BY <2>3
<1> HIDE DEF packs
<1>13. 0 \in T
  <2>1. packs[0] = first /\ 0 \in 0..N
    BY <1>2, <1>12
  <2>2. RoundsLeft(packs[0]) <= N - 0
    BY <1>2, <1>6, <2>1
  <2> QED BY <1>4, <2>1, <2>2
<1>14. ASSUME NEW k \in 1..N, k - 1 \in T PROVE k \in T
  <2>1. k \in 0..N /\ k # 0 /\ k \in Int
    BY <1>2
  <2>2. PICK p \in S : p = packs[k - 1]
    BY <1>14
  <2>3. p.n <= fSegment + BarChars \/ RoundsLeft(p) <= N - (k - 1)
    BY <1>14, <2>2
  <2>4. packs[k] = PackOnce(p)
    BY <1>12, <2>1, <2>2
  <2>5. PackOnce(p) \in S
    BY <1>5
  <2>6. PackOnce(p).n <= fSegment + BarChars \/ RoundsLeft(PackOnce(p)) <= N - k
    <3>1. CASE p.n <= fSegment + BarChars
      <4>1. PackOnce(p) = p
        BY <3>1, PackOnceRests
      <4> QED BY <3>1, <4>1
    <3>2. CASE RoundsLeft(p) <= N - (k - 1)
      <4>1. PackOnce(p).n <= fSegment + BarChars \/ RoundsLeft(PackOnce(p)) = RoundsLeft(p) - 1
        BY <1>2, PackOnceKeeps DEF S
      <4>2. RoundsLeft(p) \in Int
        <5>1. p.n \in Counts(L)
          BY DEF S, Packing
        <5> QED BY <1>2, <5>1 DEF RoundsLeft, Counts
      <4> QED BY <1>2, <2>1, <3>2, <4>1, <4>2
    <3> QED BY <2>3, <3>1, <3>2
  <2> QED BY <2>1, <2>4, <2>5, <2>6
<1>15. N \in T
  <2> HIDE DEF T
  <2>1. \A k \in 1..N : k - 1 \in T => k \in T
    BY <1>14
  <2>2. \A k \in 0..N : k \in T
    BY <1>2, <1>13, <2>1, InductionUpto
  <2> QED BY <1>2, <2>2
<1>16. packs[N] \in S /\ (packs[N].n <= fSegment + BarChars \/ RoundsLeft(packs[N]) <= N - N)
  BY <1>15
<1>17. packs[N].n \in Counts(L)
  BY <1>16 DEF S, Packing
<1>18. packs[N].n <= fSegment + BarChars
  <2>1. packs[N].n \in Nat
    BY <1>2, <1>17 DEF Counts
  <2>2. CASE RoundsLeft(packs[N]) <= N - N
    <3>1. RoundsLeft(packs[N]) <= 0
      BY <1>2, <2>2
    <3>2. RoundsLeft(packs[N]) >= packs[N].n
      BY <2>1 DEF RoundsLeft
    <3> QED BY <1>3, <2>1, <3>1, <3>2 DEF RoundsLeft
  <2> QED BY <1>16, <2>2
<1> QED BY <1>7, <1>16, <1>18 DEF S

\* Where one of the new segments has no char yet, there is one that none of them has.
Missing(chars, f, n) == \E i \in f + 1..n : chars[i] = -1
FreeFor(chars, f, n, b) == \E c \in 0..b - 1 : \A j \in f + 1..n : chars[j] # c
LEMMA FreeChar ==
    ASSUME NEW f \in Nat, NEW n \in Nat, NEW b \in Nat, n <= f + b, NEW chars, Missing(chars, f, n)
    PROVE  FreeFor(chars, f, n, b)
<1>0. PICK i \in f + 1..n : chars[i] = -1
  BY DEF Missing
<1> DEFINE I == f + 1..n
           J == I \ {i}
           C == {chars[j] : j \in J}
           h == [j \in J |-> chars[j]]
<1> SUFFICES ASSUME \A c \in 0..b - 1 : \E j \in f + 1..n : chars[j] = c PROVE FALSE
  BY DEF FreeFor
<1>1. 0..b - 1 \subseteq C
  BY <1>0
<1>2. f + 1 \in Int /\ n \in Int /\ f + 1 <= n /\ i \in I
  OBVIOUS
<1>3. IsFiniteSet(I) /\ Cardinality(I) = n - f
  <2>1. IsFiniteSet(I) /\ Cardinality(I) = IF f + 1 > n THEN 0 ELSE n - (f + 1) + 1
    BY <1>2, FS_Interval
  <2> QED BY <1>2, <2>1
<1>4. IsFiniteSet(J) /\ Cardinality(J) = n - f - 1
  <2> HIDE DEF I
  <2>1. IsFiniteSet(J) /\ Cardinality(J) = IF i \in I THEN Cardinality(I) - 1 ELSE Cardinality(I)
    BY <1>3, FS_RemoveElement
  <2> QED BY <1>2, <1>3, <2>1
<1>5. h \in Surjection(J, C)
  BY DEF Surjection
<1>6. IsFiniteSet(C) /\ Cardinality(C) <= Cardinality(J)
  <2> HIDE DEF J, C, h
  <2> QED BY <1>4, <1>5, FS_Surjection
<1>7. Cardinality(0..b - 1) = b
  <2>1. b - 1 \in Int /\ 0 \in Int
    OBVIOUS
  <2>2. Cardinality(0..b - 1) = IF 0 > b - 1 THEN 0 ELSE (b - 1) - 0 + 1
    BY <2>1, FS_Interval
  <2> QED BY <2>2
<1>8. Cardinality(0..b - 1) <= Cardinality(C)
  <2> HIDE DEF C
  <2> QED BY <1>1, <1>6, FS_Subset
<1>9. Cardinality(C) \in Nat
  <2> HIDE DEF C
  <2> QED BY <1>6, FS_CardinalityType
<1> QED BY <1>4, <1>6, <1>7, <1>8, <1>9

\* What is defined: chars below those of the icons, for new segments.
Looks == {glyphs[c] : c \in Definable(drv)} \cup {LookOfSegment(seg) : seg \in SegmentRecord}
Glyphs == [Definable(drv) -> Looks]
NewOnes(n) == SUBSET (fSegment + 1..n)
Defining(L, n) ==
    {acc \in [segs : SegmentArray(L), looks : Glyphs, new : NewOnes(n)] :
        /\ \A j \in acc.new : acc.segs[j].ascii \in 0..BarChars - 1
        /\ \A c \in IconChars(drv) : acc.looks[c] = glyphs[c]}

LEMMA DefineDefines ==
    ASSUME drv \in TextSetups, NEW L \in Nat, NEW n \in 0..L, n <= fSegment + BarChars,
           NEW acc \in Defining(L, n), NEW i \in 1..n
    PROVE  Define(acc, i, n) \in Defining(L, n)
<1> DEFINE taken == {acc.segs[j].ascii : j \in fSegment + 1..n}
           free == (0..BarChars) \ (taken \ {BarChars})
           c == Min(free)
           segs == [acc.segs EXCEPT ![i].ascii = c]
           looks == [acc.looks EXCEPT ![drv.CHAR0 + c] = LookOfSegment(acc.segs[i])]
           new == acc.new \cup {i}
<1>1. /\ fSegment \in Nat /\ drv.CHARS \in Nat /\ drv.CHAR0 \in Nat /\ drv.ICONS \in 0..drv.CHARS
  BY OfSetup DEF fSegment
<1>2. BarChars \in Nat /\ BarChars + drv.ICONS = drv.CHARS
  BY <1>1 DEF BarChars
<1>3. /\ acc.segs \in SegmentArray(L) /\ acc.looks \in Glyphs /\ acc.new \in NewOnes(n)
      /\ \A j \in acc.new : acc.segs[j].ascii \in 0..BarChars - 1
      /\ \A k \in IconChars(drv) : acc.looks[k] = glyphs[k]
  BY DEF Defining
<1>4. i \in 1..L /\ i \in Nat /\ n \in Nat
  OBVIOUS
<1>5. acc.segs \in [1..L -> SegmentRecord] /\ acc.segs[i] \in SegmentRecord
  BY <1>3, <1>4 DEF SegmentArray
<1>6. CASE i <= fSegment \/ acc.segs[i].used \/ acc.segs[i].ascii # -1
  BY <1>6 DEF Define
<1>7. CASE ~(i <= fSegment \/ acc.segs[i].used \/ acc.segs[i].ascii # -1)
  <2>1. Define(acc, i, n) = [segs |-> segs, looks |-> looks, new |-> new]
    BY <1>7 DEF Define
  <2>2. i \in fSegment + 1..n /\ acc.segs[i].ascii = -1
    BY <1>1, <1>4, <1>7
  <2>3. PICK k \in 0..BarChars - 1 : \A j \in fSegment + 1..n : acc.segs[j].ascii # k
    <3> DEFINE chars == [j \in fSegment + 1..n |-> acc.segs[j].ascii]
    <3>1. Missing(chars, fSegment, n)
      BY <2>2 DEF Missing
    <3> HIDE DEF chars
    <3>2. FreeFor(chars, fSegment, n, BarChars)
      BY <1>1, <1>2, <1>4, <3>1, FreeChar
    <3> QED BY <3>2 DEF chars, FreeFor
  <2>4. c \in free /\ c <= k
    <3>1. free \in SUBSET Nat /\ k \in free
      BY <1>2, <2>3
    <3> HIDE DEF free
    <3> QED BY <3>1, Least
  <2>5. c \in 0..BarChars - 1 /\ c \in Int
    BY <1>2, <2>3, <2>4
  <2> HIDE DEF c, taken, free
  <2>6. segs \in SegmentArray(L) /\ \A j \in 1..L : segs[j].ascii = IF j = i THEN c ELSE acc.segs[j].ascii
    <3>1. [acc.segs[i] EXCEPT !.ascii = c] \in SegmentRecord /\ [acc.segs[i] EXCEPT !.ascii = c].ascii = c
      BY <1>5, <2>5 DEF SegmentRecord
    <3>2. segs = [acc.segs EXCEPT ![i] = [acc.segs[i] EXCEPT !.ascii = c]]
      OBVIOUS
    <3> HIDE DEF segs
    <3> QED BY <1>4, <1>5, <3>1, <3>2 DEF SegmentArray
  <2>7. LookOfSegment(acc.segs[i]) \in Looks
    BY <1>5 DEF Looks
  <2>8. looks \in Glyphs /\ \A x \in Definable(drv) : x # drv.CHAR0 + c => looks[x] = acc.looks[x]
    BY <1>3, <2>7 DEF Glyphs
  <2>9. \A x \in IconChars(drv) : x # drv.CHAR0 + c /\ x \in Definable(drv)
    BY <1>1, <1>2, <2>5 DEF IconChars, Definable
  <2>10. new \in NewOnes(n)
    BY <1>3, <2>2 DEF NewOnes
  <2>11. \A j \in new : segs[j].ascii \in 0..BarChars - 1
    <3> SUFFICES ASSUME NEW j \in new PROVE segs[j].ascii \in 0..BarChars - 1
      OBVIOUS
    <3>1. j \in 1..L
      BY <1>1, <1>4, <2>10 DEF NewOnes
    <3> HIDE DEF segs
    <3>2. CASE j = i
      BY <1>4, <2>5, <2>6, <3>2
    <3>3. CASE j # i
      BY <1>3, <2>6, <3>1, <3>3
    <3> QED BY <3>2, <3>3
  <2>12. \A x \in IconChars(drv) : looks[x] = glyphs[x]
    <3> HIDE DEF looks
    <3> QED BY <1>3, <2>8, <2>9
  <2> HIDE DEF segs, looks, new
  <2> QED BY <2>1, <2>6, <2>8, <2>10, <2>11, <2>12 DEF Defining
<1> QED BY <1>6, <1>7

\* Where there are chars for all segments, each new one gets its own.
LEMMA DefineCharsDefines ==
    ASSUME drv \in TextSetups, glyphs = [c \in Definable(drv) |-> glyphs[c]], NEW L \in Nat, NEW fb,
           NEW packed \in Packing(L, fb), packed.n <= fSegment + BarChars
    PROVE  DefineChars(packed) \in Defining(L, packed.n)
<1> DEFINE N == packed.n
           S == Defining(L, N)
           first == [segs |-> packed.segs, looks |-> glyphs, new |-> {}]
           defined == CHOOSE f : f = [i \in 0..N |-> IF i = 0 THEN first ELSE Define(f[i - 1], i, N)]
           next == [i \in 1..N |-> [acc \in S |-> Define(acc, i, N)]]
<1>1. N \in Nat /\ N \in 0..L
  <2>1. N \in Counts(L)
    BY DEF Packing
  <2> QED BY <2>1 DEF Counts
<1>2. first \in S
  <2>1. packed.segs \in SegmentArray(L) /\ {} \in NewOnes(N)
    BY DEF Packing, NewOnes
  <2>2. glyphs \in Glyphs
    <3>1. [c \in Definable(drv) |-> glyphs[c]] \in Glyphs
      BY DEF Glyphs, Looks
    <3> QED BY <3>1
  <2> QED BY <2>1, <2>2 DEF Defining
<1>3. ASSUME NEW i \in 1..N, NEW acc \in S PROVE Define(acc, i, N) \in S
  <2> HIDE DEF N
  <2> QED BY <1>1, DefineDefines DEF N
<1>4. DefineChars(packed) = defined[N]
  BY DEF DefineChars
<1> HIDE DEF N, S, first
<1>5. next \in Steps(N, S)
  BY <1>3 DEF Steps
<1>6. PICK g : Iterates(g, N, S, first, next)
  <2> HIDE DEF next
  <2> QED BY <1>1, <1>2, <1>5, Iteration
<1>7. g \in [0..N -> S] /\ g[0] = first /\ \A i \in 1..N : g[i] = next[i][g[i - 1]]
  BY <1>6 DEF Iterates
<1>8. \A i \in 1..N : g[i] = Define(g[i - 1], i, N)
  <2> SUFFICES ASSUME NEW i \in 1..N PROVE g[i] = Define(g[i - 1], i, N)
    OBVIOUS
  <2>1. i - 1 \in 0..N
    BY <1>1
  <2>2. g[i - 1] \in S
    BY <1>7, <2>1
  <2> QED BY <1>7, <2>2
<1>9. defined = [i \in 0..N |-> IF i = 0 THEN first ELSE Define(defined[i - 1], i, N)]
  <2>1. \A i \in 0..N : i = 0 \/ i \in 1..N
    BY <1>1
  <2>2. \A i \in 0..N : g[i] = IF i = 0 THEN first ELSE Define(g[i - 1], i, N)
    BY <1>7, <1>8, <2>1
  <2>3. g = [i \in 0..N |-> IF i = 0 THEN first ELSE Define(g[i - 1], i, N)]
    BY <1>7, <2>2
  <2> QED BY <2>3
<1> HIDE DEF defined
<1>10. defined[0] \in S
  BY <1>1, <1>2, <1>9
<1>11. ASSUME NEW i \in 1..N, defined[i - 1] \in S PROVE defined[i] \in S
  <2>1. i \in 0..N /\ i # 0
    BY <1>1
  <2>2. defined[i] = Define(defined[i - 1], i, N)
    BY <1>9, <2>1
  <2> QED BY <1>3, <1>11, <2>2
<1>12. defined[N] \in S
  BY <1>1, <1>10, <1>11, Stays
<1> QED BY <1>4, <1>12 DEF S, N

\* The cells of a bar get numbers, its direction and a style.
LEMMA PartInt == \A val \in Int, res \in Int : Part(val, res) \in Int
<1> SUFFICES ASSUME NEW val \in Int, NEW res \in Int PROVE Part(val, res) \in Int
  OBVIOUS
<1> DEFINE m == Min({val, res})
<1>1. m \in Int
  BY Smaller
<1> HIDE DEF m
<1>2. \E x \in {0, m} : \A k \in {0, m} : x >= k
  <2>1. CASE m >= 0 BY <1>1, <2>1
  <2>2. CASE 0 >= m BY <1>1, <2>2
  <2> QED BY <1>1, <2>1, <2>2
<1>3. Max({0, m}) \in {0, m}
  BY <1>2 DEF Max
<1> QED BY <1>1, <1>3 DEF Part, m

LEMMA BarKeeps ==
    ASSUME drv \in TextSetups, NEW w \in drv.bars, NEW val1 \in w.vals, NEW val2 \in w.vals, NEW fb, InPlace(fb)
    PROVE  DOMAIN Bar(fb, w, val1, val2) = DOMAIN fb /\ InPlace(Bar(fb, w, val1, val2))
<1> DEFINE res == Res({w.dir})
           Value(val, k) == IF w.dir \in {"W", "N"} THEN res - Part((w.len * res - val) - k * res, res)
                                                    ELSE Part(val - k * res, res)
           Style(k, old) ==
               IF ~w.style THEN old
               ELSE IF Horizontal({w.dir}) /\ k = w.len - 1 THEN "last"
               ELSE IF k = 0 THEN "first"
               ELSE IF Horizontal({w.dir}) /\ old = "none" THEN "hollow" ELSE old
           Place(cell) == IF Horizontal({w.dir}) THEN cell[2] - w.col ELSE cell[1] - w.row
           bar(cell) == [val1 |-> Value(val1, Place(cell)), val2 |-> Value(val2, Place(cell)),
                         dir |-> {w.dir}, style |-> Style(Place(cell), fb[cell].style)]
<1>1. Bar(fb, w, val1, val2) = [cell \in DOMAIN fb |-> IF cell \in AreaOfBar(w) THEN bar(cell) ELSE fb[cell]]
  BY DEF Bar
<1>2. res \in Int /\ val1 \in Int /\ val2 \in Int /\ w.row \in Int /\ w.col \in Int /\ w.len \in Int /\ w.dir \in AllDirs
  BY OfSetup DEF Res
<1>3. ASSUME NEW cell \in AreaOfBar(w) PROVE Place(cell) \in Int
  <2>1. PICK k \in 0..w.len - 1 : cell = IF Horizontal({w.dir}) THEN <<w.row, w.col + k>> ELSE <<w.row + k, w.col>>
    BY DEF AreaOfBar
  <2>2. CASE Horizontal({w.dir})
    <3>1. cell[2] = w.col + k
      BY <2>1, <2>2
    <3> QED BY <1>2, <2>2, <3>1
  <2>3. CASE ~Horizontal({w.dir})
    <3>1. cell[1] = w.row + k
      BY <2>1, <2>3
    <3> QED BY <1>2, <2>3, <3>1
  <2> QED BY <2>2, <2>3
<1>4. ASSUME NEW val \in Int, NEW k \in Int PROVE Value(val, k) \in Int
  <2>1. PICK r \in Int : r = res
    BY <1>2
  <2>2. w.len * r \in Int /\ k * r \in Int
    BY <1>2
  <2>3. Part((w.len * r - val) - k * r, r) \in Int /\ Part(val - k * r, r) \in Int
    <3>1. PICK x \in Int, y \in Int : x = (w.len * r - val) - k * r /\ y = val - k * r
      BY <2>2
    <3>2. Part(x, r) \in Int /\ Part(y, r) \in Int
      BY PartInt
    <3> QED BY <3>1, <3>2
  <2> HIDE DEF res
  <2> QED BY <2>1, <2>3
<1> DEFINE Styles == {"none", "all", "first", "last", "hollow"}
<1>5. ASSUME NEW cell \in DOMAIN fb PROVE Style(Place(cell), fb[cell].style) \in Styles
  <2>1. fb[cell].style \in Styles
    BY DEF InPlace, BarRecord
  <2> HIDE DEF Place
  <2> QED BY <2>1
<1> HIDE DEF Value, Style, Place, Styles
<1>6. ASSUME NEW cell \in DOMAIN fb, cell \in AreaOfBar(w) PROVE bar(cell) \in BarRecord
  <2>1. Value(val1, Place(cell)) \in Int /\ Value(val2, Place(cell)) \in Int
    BY <1>2, <1>3, <1>4, <1>6
  <2>2. {w.dir} \in SUBSET AllDirs
    BY <1>2
  <2> QED BY <1>5, <2>1, <2>2 DEF BarRecord, Styles
<1>7. ASSUME NEW cell \in DOMAIN fb
      PROVE  /\ Bar(fb, w, val1, val2)[cell] \in BarRecord
             /\ Bar(fb, w, val1, val2)[cell].dir # {} => \E v \in drv.bars : cell \in AreaOfBar(v)
  <2>1. CASE cell \in AreaOfBar(w)
    BY <1>1, <1>6, <2>1
  <2>2. CASE cell \notin AreaOfBar(w)
    BY <1>1, <2>2 DEF InPlace
  <2> QED BY <2>1, <2>2
<1> HIDE DEF bar
<1>8. DOMAIN Bar(fb, w, val1, val2) = DOMAIN fb
  BY <1>1
<1> QED BY <1>7, <1>8 DEF InPlace

\* drv_generic_text_bar_draw, with what was packed and defined.
AsciiAt(at, segs, cell) ==
    IF at[cell] > fSegment THEN drv.CHAR0 + segs[at[cell]].ascii ELSE segs[at[cell]].ascii
LayoutWith(old, at, segs) ==
    [cell \in DOMAIN old |-> IF cell \in {other \in DOMAIN at : segs[at[other]].ascii # -1} THEN AsciiAt(at, segs, cell) ELSE old[cell]]
InvalidWith(at, new) == IF drv.INVALIDATE THEN {cell \in DOMAIN at : at[cell] \in new} ELSE {}
SegmentsWith(at, segs, n) ==
    [i \in 1..Max({fSegment, n}) |-> [segs[i] EXCEPT !.used = \E cell \in DOMAIN at : at[cell] = i]]
BarDrawn(w, vals, rows, cols, fb, packed, defined, layout, invalid) ==
    /\ Resize(rows, cols)
    /\ BarFB' = fb
    /\ Segment' = SegmentsWith(packed.at, defined.segs, packed.n)
    /\ glyphs' = defined.looks
    /\ LayoutFB' = layout
    /\ Blit(layout, Invalidated(layout, invalid), defined.looks, DOMAIN layout)
    /\ drawn' = [drawn EXCEPT ![w] = vals]
    /\ drv' = drv /\ icon' = icon

BarsDrawn(w, val1, val2, rows, cols) ==
    \E grown, fb, packed, defined :
        /\ grown \in BarsResized(rows, cols)
        /\ fb = Bar(grown, w, val1, val2)
        /\ packed = PackSegments(CreateSegments(fb, Max({rows, LROWS}), Max({cols, LCOLS})))
        /\ defined = DefineChars(packed)
        /\ BarDrawn(w, <<val1, val2>>, rows, cols, fb, packed, defined,
                    LayoutWith(Resized(LayoutFB, rows, cols, Blank), packed.at, defined.segs),
                    InvalidWith(packed.at, defined.new))

LEMMA DrawBarDraws ==
    ASSUME NEW w, NEW val1, NEW val2, DrawBar(w, val1, val2),
           NEW rows, rows = w.row + 1, NEW cols, cols = w.col + (IF Horizontal({w.dir}) THEN w.len ELSE 1)
    PROVE  BarsDrawn(w, val1, val2, rows, cols)
<1> DEFINE R == w.row + 1
           C == w.col + (IF Horizontal({w.dir}) THEN w.len ELSE 1)
<1>1. \E grown \in BarsResized(R, C) : \E fb \in {Bar(grown, w, val1, val2)} :
      \E packed \in {PackSegments(CreateSegments(fb, Max({R, LROWS}), Max({C, LCOLS})))} :
      \E defined \in {DefineChars(packed)} :
          BarDrawn(w, <<val1, val2>>, R, C, fb, packed, defined,
                   LayoutWith(Resized(LayoutFB, R, C, Blank), packed.at, defined.segs), InvalidWith(packed.at, defined.new))
  <2> DEFINE old == Resized(LayoutFB, R, C, Blank)
  <2> DEFINE Drawing(fb, packed, defined) ==
                LET shown == {cell \in DOMAIN packed.at : defined.segs[packed.at[cell]].ascii # -1}
                    layout == [cell \in DOMAIN old |-> IF cell \in shown THEN AsciiAt(packed.at, defined.segs, cell) ELSE old[cell]]
                    invalid == IF drv.INVALIDATE THEN {cell \in DOMAIN packed.at : packed.at[cell] \in defined.new} ELSE {}
                IN  /\ Resize(R, C)
                    /\ BarFB' = fb
                    /\ Segment' = [i \in 1..Max({fSegment, packed.n}) |->
                                      [defined.segs[i] EXCEPT !.used = \E cell \in DOMAIN packed.at : packed.at[cell] = i]]
                    /\ glyphs' = defined.looks
                    /\ LayoutFB' = layout
                    /\ Blit(layout, Invalidated(layout, invalid), defined.looks, DOMAIN layout)
                    /\ packing' = packed.packed
                    /\ Overruns(invalid)
                    /\ drawn' = [drawn EXCEPT ![w] = <<val1, val2>>]
                    /\ UNCHANGED <<drv, icon>>
  <2>1. \E grown \in BarsResized(R, C) : \E fb \in {Bar(grown, w, val1, val2)} :
        \E packed \in {PackSegments(CreateSegments(fb, Max({R, LROWS}), Max({C, LCOLS})))} :
        \E defined \in {DefineChars(packed)} : Drawing(fb, packed, defined)
    BY DEF DrawBar, AsciiAt
  <2>2. ASSUME NEW fb, NEW packed, NEW defined, Drawing(fb, packed, defined)
        PROVE  BarDrawn(w, <<val1, val2>>, R, C, fb, packed, defined,
                        LayoutWith(old, packed.at, defined.segs), InvalidWith(packed.at, defined.new))
    BY <2>2 DEF BarDrawn, LayoutWith, InvalidWith, SegmentsWith
  <2> HIDE DEF Drawing, R, C
  <2> QED BY <2>1, <2>2
<1>2. R = rows /\ C = cols
  OBVIOUS
<1> HIDE DEF R, C
<1> QED BY <1>1, <1>2 DEF BarsDrawn

\* The segments that are kept.
LEMMA SegmentsStay ==
    ASSUME fSegment \in Nat, NEW L \in Nat, fSegment <= L, NEW n \in Nat, n <= L, NEW segs \in SegmentArray(L), NEW at
    PROVE  SegmentsWith(at, segs, n) \in Seq(SegmentRecord) /\ Len(SegmentsWith(at, segs, n)) >= fSegment
<1> DEFINE M == Max({fSegment, n})
           Used(i) == \E cell \in DOMAIN at : at[cell] = i
           kept == [i \in 1..M |-> [segs[i] EXCEPT !.used = Used(i)]]
<1>1. M \in Nat /\ M >= fSegment /\ M <= L
  <2>1. M \in Nat /\ M \in {fSegment, n} /\ M >= fSegment
    BY Larger
  <2> QED BY <2>1
<1>2. SegmentsWith(at, segs, n) = kept
  BY DEF SegmentsWith
<1> HIDE DEF M
<1>3. ASSUME NEW i \in 1..M PROVE [segs[i] EXCEPT !.used = Used(i)] \in SegmentRecord
  <2>1. i \in 1..L
    BY <1>1
  <2>2. segs[i] \in SegmentRecord
    BY <2>1 DEF SegmentArray
  <2>3. Used(i) \in BOOLEAN
    OBVIOUS
  <2> HIDE DEF Used
  <2> QED BY <2>2, <2>3 DEF SegmentRecord
<1>4. kept \in [1..M -> SegmentRecord]
  <2> HIDE DEF Used
  <2> QED BY <1>3
<1>5. kept \in Seq(SegmentRecord) /\ Len(kept) = M
  <2>1. DOMAIN kept = 1..M
    OBVIOUS
  <2> HIDE DEF kept
  <2> QED BY <1>1, <1>4, <2>1
<1> HIDE DEF kept
<1> QED BY <1>1, <1>2, <1>5

LEMMA DrawBarKeeps ==
    ASSUME TextInv, NEW w \in drv.bars, NEW val1 \in w.vals, NEW val2 \in w.vals, DrawBar(w, val1, val2)
    PROVE  TextInv'
<1>1. /\ TextTypes /\ InPlace(BarFB) /\ BarsInPlace /\ IconsApart /\ LaidOut /\ OnTheDisplay
      /\ drv \in TextSetups /\ CharsGiven /\ DOMAIN LayoutFB = Cells(LROWS, LCOLS)
      /\ glyphs = [c \in Definable(drv) |-> glyphs[c]]
      /\ DOMAIN drawn = drv.texts \cup drv.icons \cup drv.bars /\ DOMAIN icon = drv.icons
  BY DEF TextInv, TextTypes, BarsInPlace, IconsApart
<1>2. PICK rows \in Nat, cols \in Nat : rows = w.row + 1 /\ cols = w.col + (IF Horizontal({w.dir}) THEN w.len ELSE 1)
  <2>1. w.row \in Nat /\ w.col \in Nat /\ w.len \in Nat
    BY <1>1, OfSetup
  <2>2. w.row + 1 \in Nat /\ w.col + (IF Horizontal({w.dir}) THEN w.len ELSE 1) \in Nat
    BY <2>1
  <2> QED BY <2>2
<1>3. PICK grown, fb, packed, defined :
        /\ grown \in BarsResized(rows, cols)
        /\ fb = Bar(grown, w, val1, val2)
        /\ packed = PackSegments(CreateSegments(fb, Max({rows, LROWS}), Max({cols, LCOLS})))
        /\ defined = DefineChars(packed)
        /\ BarDrawn(w, <<val1, val2>>, rows, cols, fb, packed, defined,
                    LayoutWith(Resized(LayoutFB, rows, cols, Blank), packed.at, defined.segs),
                    InvalidWith(packed.at, defined.new))
  <2>1. BarsDrawn(w, val1, val2, rows, cols)
    BY <1>2, DrawBarDraws
  <2> QED BY <2>1 DEF BarsDrawn
<1> DEFINE old == Resized(LayoutFB, rows, cols, Blank)
           layout == LayoutWith(old, packed.at, defined.segs)
           invalid == InvalidWith(packed.at, defined.new)
           looks == defined.looks
           created == CreateSegments(fb, LROWS', LCOLS')
           L == Len(created.segs)
<1>4. /\ Resize(rows, cols) /\ BarFB' = fb
      /\ Segment' = SegmentsWith(packed.at, defined.segs, packed.n)
      /\ glyphs' = looks /\ LayoutFB' = layout
      /\ Blit(layout, Invalidated(layout, invalid), looks, DOMAIN layout)
      /\ drawn' = [drawn EXCEPT ![w] = <<val1, val2>>]
      /\ drv' = drv /\ icon' = icon
  BY <1>3 DEF BarDrawn
<1>5. /\ LROWS' \in Nat /\ LROWS' >= DROWS /\ LCOLS' \in Nat /\ LCOLS' >= DCOLS
      /\ LROWS' = Max({rows, LROWS}) /\ LCOLS' = Max({cols, LCOLS})
      /\ LROWS' >= rows /\ LCOLS' >= cols
  BY <1>1, <1>4, ResizeGrows
<1>6. DOMAIN fb = Cells(LROWS', LCOLS') /\ InPlace(fb)
  <2>1. DOMAIN grown = Cells(LROWS', LCOLS') /\ InPlace(grown)
    <3>1. grown \in BarsResized(rows, cols)
      BY <1>3
    <3> QED BY <1>1, <1>5, <3>1, BarsGrow
  <2> QED BY <1>1, <1>3, <2>1, BarKeeps
<1>7. DOMAIN old = Cells(LROWS', LCOLS') /\ Grown(old, LayoutFB, Blank)
  <2> HIDE DEF old
  <2>1. old = Resized(LayoutFB, rows, cols, Blank)
    BY DEF old
  <2> QED BY <1>1, <1>5, <2>1, ResizedKeeps
<1>8. created \in Created(fb)
  <2>1. LCOLS' \in Nat \ {0}
    BY <1>5, DisplayAssumption
  <2> QED BY <1>1, <1>5, <1>6, <2>1, CreateSegmentsCreates
<1>9. L \in Nat /\ fSegment \in Nat /\ fSegment <= L
  BY <1>1, <1>8, OfSetup DEF Created, fSegment
<1>10. packed \in Packing(L, fb) /\ packed.n <= fSegment + BarChars
  <2>1. packed = PackSegments(created)
    BY <1>3, <1>5
  <2> HIDE DEF created
  <2> QED BY <1>1, <1>8, <2>1, PackSegmentsPacks
<1> HIDE DEF L, created
<1>11. defined \in Defining(L, packed.n)
  BY <1>1, <1>3, <1>9, <1>10, DefineCharsDefines
<1>12. /\ packed.n \in Nat /\ packed.n <= L /\ packed.at \in SegmentsOf(fb)
  <2>1. packed.n \in Counts(L) /\ packed.at \in SegmentsOf(fb)
    BY <1>10 DEF Packing
  <2> QED BY <1>9, <2>1 DEF Counts
<1>13. /\ defined.segs \in SegmentArray(L) /\ looks \in Glyphs /\ defined.new \in NewOnes(packed.n)
       /\ \A j \in defined.new : defined.segs[j].ascii \in 0..BarChars - 1
       /\ \A c \in IconChars(drv) : looks[c] = glyphs[c]
  BY <1>11 DEF Defining
<1> DEFINE touched == DOMAIN packed.at
<1>14. touched \subseteq Cells(LROWS', LCOLS') /\ \A cell \in touched : \E v \in drv.bars : cell \in AreaOfBar(v)
  BY <1>6, <1>12 DEF SegmentsOf, CellsOfBars, InPlace
<1>15. /\ \A v \in drv.texts : AreaOfText(v) \cap touched = {}
       /\ \A v \in drv.icons : AreaOfIcon(v) \cap touched = {}
  BY <1>1, <1>14, Apart
<1>16. /\ DOMAIN layout = Cells(LROWS', LCOLS')
       /\ \A cell \in DOMAIN layout \ touched : layout[cell] = old[cell]
  BY <1>7 DEF LayoutWith
<1>17. Redrawn(layout, touched)
  <2> HIDE DEF layout, old, touched
  <2> QED BY <1>1, <1>5, <1>7, <1>16 DEF Redrawn, Grown
<1>18. \A cell \in invalid : layout[cell] \in Definable(drv)
  <2> SUFFICES ASSUME NEW cell \in invalid PROVE layout[cell] \in Definable(drv)
    OBVIOUS
  <2>1. cell \in touched /\ packed.at[cell] \in defined.new
    BY DEF InvalidWith
  <2>2. PICK j \in defined.new : j = packed.at[cell]
    BY <2>1
  <2>3. j > fSegment /\ defined.segs[j].ascii \in 0..BarChars - 1
    BY <1>9, <1>12, <1>13 DEF NewOnes
  <2>4. cell \in DOMAIN old
    BY <1>7, <1>14, <2>1
  <2>5. drv.CHARS \in Nat /\ drv.CHAR0 \in Nat /\ drv.ICONS \in 0..drv.CHARS
    BY <1>1, OfSetup
  <2>6. defined.segs[j].ascii # -1
    BY <2>3, <2>5 DEF BarChars
  <2> HIDE DEF old
  <2>7. layout[cell] = drv.CHAR0 + defined.segs[j].ascii
    BY <2>1, <2>2, <2>3, <2>4, <2>6 DEF LayoutWith, AsciiAt
  <2> HIDE DEF layout
  <2> QED BY <2>3, <2>5, <2>7 DEF Definable, BarChars
<1>19. invalid \in SUBSET (Nat \X Nat) /\ (invalid # {} => drv.INVALIDATE)
  <2>1. Cells(LROWS', LCOLS') \subseteq Nat \X Nat
    BY <1>5 DEF Cells
  <2> QED BY <1>14, <2>1 DEF InvalidWith
<1> HIDE DEF layout, old, invalid, touched, looks
<1>20. /\ DOMAIN Invalidated(layout, invalid) = Addresses
       /\ \A d \in Addresses : Invalidated(layout, invalid)[d] \in {DisplayFB[d]} \cup Complements(drv)
  BY <1>1, <1>18, <1>19, Marked
<1>21. DOMAIN DisplayFB' = Addresses /\ DOMAIN device' = Addresses
  BY <1>1, <1>4, <1>20, BlitShows
<1>22. TextTypes'
  <2>1. glyphs' = [c \in Definable(drv) |-> glyphs'[c]]
    BY <1>4, <1>13 DEF Glyphs
  <2>2. DOMAIN drawn' = drv.texts \cup drv.icons \cup drv.bars
    BY <1>1, <1>4
  <2> QED BY <1>1, <1>4, <1>5, <1>6, <1>16, <1>21, <2>1, <2>2 DEF TextTypes, Addresses
<1>23. BarsInPlace'
  <2>1. Segment' \in Seq(SegmentRecord) /\ Len(Segment') >= fSegment
    BY <1>4, <1>9, <1>12, <1>13, SegmentsStay
  <2> QED BY <1>4, <1>6, <2>1 DEF BarsInPlace, InPlace, fSegment
<1>24. IconsApart'
  BY <1>1, <1>4, <1>13, IconsStay
<1>25. \A v \in drv.texts : TextLaid(v, layout, drawn'[v])
  <2> SUFFICES ASSUME NEW v \in drv.texts PROVE TextLaid(v, layout, drawn'[v])
    OBVIOUS
  <2>1. TextLaid(v, LayoutFB, drawn[v]) /\ v # w
    BY <1>1, Apart DEF LaidOut
  <2>2. drawn'[v] = drawn[v]
    BY <1>1, <1>4, <2>1
  <2> QED BY <1>15, <1>17, <2>1, <2>2, TextElsewhere
<1>26. \A v \in drv.icons : IconLaid(v, layout, icon[v], drawn'[v])
  <2> SUFFICES ASSUME NEW v \in drv.icons PROVE IconLaid(v, layout, icon[v], drawn'[v])
    OBVIOUS
  <2>1. IconLaid(v, LayoutFB, icon[v], drawn[v]) /\ v # w
    BY <1>1, Apart DEF LaidOut
  <2>2. drawn'[v] = drawn[v]
    BY <1>1, <1>4, <2>1
  <2> QED BY <1>15, <1>17, <2>1, <2>2, IconElsewhere
<1>27. LaidOut'
  BY <1>4, <1>25, <1>26 DEF LaidOut, TextLaid, IconLaid
<1>28. OnTheDisplay'
  <2> SUFFICES ASSUME NEW cell \in Own \cap Cells(DROWS, DCOLS)
               PROVE  AsLaidOut(cell, layout, DisplayFB', device', looks)
    BY <1>4 DEF OnTheDisplay, Own, AsLaidOut
  <2>1. cell \in DOMAIN LayoutFB /\ Address(cell) \in Addresses
    BY <1>1, DisplayCells
  <2>2. cell \in DOMAIN layout
    BY <1>17, <2>1 DEF Redrawn
  <2>3. cell \notin touched
    BY <1>15 DEF Own
  <2>4. layout[cell] = LayoutFB[cell]
    BY <1>17, <2>1, <2>2, <2>3 DEF Redrawn
  <2>5. \A v \in drv.icons : icon[v].ascii >= 0 => icon[v].ascii \in IconChars(drv)
    BY <1>1, GivenChar
  <2>6. layout[cell] \in Written(drv) \cup IconChars(drv) /\ layout[cell] \notin Complements(drv)
    BY <1>1, <1>25, <1>26, <2>2, <2>5, LaidChars
  <2>7. DOMAIN looks = Definable(drv) /\ DOMAIN glyphs = Definable(drv)
    BY <1>1, <1>13 DEF Glyphs
  <2>8. LookOf(layout[cell], looks) = LookOf(layout[cell], glyphs)
    <3>1. CASE layout[cell] \in Written(drv)
      <4>1. layout[cell] \notin Definable(drv)
        BY <1>1, <3>1, CharsApart
      <4> QED BY <2>7, <4>1 DEF LookOf
    <3>2. CASE layout[cell] \in IconChars(drv)
      <4>1. looks[layout[cell]] = glyphs[layout[cell]]
        BY <1>13, <3>2
      <4> QED BY <2>7, <4>1 DEF LookOf
    <3> QED BY <2>6, <3>1, <3>2
  <2>9. AsLaidOut(cell, LayoutFB, DisplayFB, device, glyphs)
    BY <1>1 DEF OnTheDisplay
  <2>10. Invalidated(layout, invalid)[Address(cell)] \in {DisplayFB[Address(cell)]} \cup Complements(drv)
    BY <1>20, <2>1
  <2> QED BY <1>1, <1>4, <1>20, <2>2, <2>4, <2>6, <2>8, <2>9, <2>10, BlitKeeps
<1> QED BY <1>22, <1>23, <1>24, <1>27, <1>28 DEF TextInv

-----------------------------------------------------------------------------
(* The theorems. *)

LEMMA TextInitial == TextInit => TextInv
<1> SUFFICES ASSUME TextInit PROVE TextInv
  OBVIOUS
<1>1. /\ drv \in TextSetups /\ LROWS = DROWS /\ LCOLS = DCOLS
      /\ LayoutFB = [cell \in Cells(DROWS, DCOLS) |-> Blank]
      /\ BarFB = [cell \in Cells(DROWS, DCOLS) |-> NoBar]
      /\ DisplayFB = [d \in 0..DROWS * DCOLS - 1 |-> Blank]
      /\ device = [d \in 0..DROWS * DCOLS - 1 |-> [char |-> Blank, look |-> <<"char", Blank>>]]
      /\ glyphs = [c \in Definable(drv) |-> <<"undefined">>]
      /\ Segment = [i \in DOMAIN drv.fixed |-> FixedSegment(drv.fixed[i])]
      /\ icon = [w \in drv.icons |-> [ascii |-> -1, prvmap |-> "none"]]
      /\ drawn = [w \in drv.texts \cup drv.icons \cup drv.bars |-> Undrawn]
  BY DEF TextInit, Definable
<1>2. TextTypes
  <2>1. DROWS \in Nat /\ DCOLS \in Nat
    BY DisplayAssumption
  <2> QED BY <1>1, <2>1 DEF TextTypes, Addresses
<1>3. Blank \in Written(drv) /\ Blank \notin Definable(drv)
  <2>1. Blank \in Written(drv)
    BY DEF Written
  <2> QED BY <1>1, <2>1, CharsApart
<1>4. BarsInPlace
  <2>1. NoBar \in BarRecord /\ NoBar.dir = {}
    BY DEF NoBar, BarRecord
  <2>2. InPlace(BarFB)
    BY <1>1, <2>1 DEF InPlace
  <2>3. drv.fixed \in Seq([val1 : Nat, val2 : Nat, ascii : Nat])
    BY <1>1, OfSetup
  <2>4. fSegment \in Nat /\ DOMAIN drv.fixed = 1..fSegment
    BY <2>3 DEF fSegment
  <2>5. ASSUME NEW i \in 1..fSegment PROVE FixedSegment(drv.fixed[i]) \in SegmentRecord
    <3>1. drv.fixed[i] \in [val1 : Nat, val2 : Nat, ascii : Nat]
      <4> DEFINE Fixed == [val1 : Nat, val2 : Nat, ascii : Nat]
      <4>1. drv.fixed \in Seq(Fixed) /\ i \in 1..Len(drv.fixed)
        BY <2>3 DEF fSegment
      <4> HIDE DEF Fixed
      <4>2. drv.fixed[i] \in Fixed
        BY <4>1
      <4> QED BY <4>2 DEF Fixed
    <3> QED BY <3>1 DEF FixedSegment, SegmentRecord
  <2>6. Segment \in [1..fSegment -> SegmentRecord]
    BY <1>1, <2>4, <2>5
  <2>7. Segment \in Seq(SegmentRecord) /\ Len(Segment) = fSegment
    BY <2>4, <2>6
  <2> QED BY <2>2, <2>4, <2>7 DEF BarsInPlace
<1>5. IconsApart
  <2>1. \A w \in drv.icons : icon[w].ascii = -1 /\ icon[w].prvmap = "none"
    BY <1>1
  <2>2. {w \in drv.icons : icon[w].ascii >= 0} = {}
    BY <2>1
  <2>3. IconsGiven = 0
    BY <2>2, FS_EmptySet DEF IconsGiven
  <2>4. drv.ICONS \in Nat
    BY <1>1, OfSetup
  <2>5. CharsGiven
    BY <2>1, <2>3, <2>4 DEF CharsGiven
  <2> QED BY <2>1, <2>5 DEF IconsApart, BitmapsKnown
<1>6. LaidOut
  <2>1. \A w \in drv.texts : TextLaid(w, LayoutFB, drawn[w])
    BY <1>1, <1>3 DEF TextLaid, Undrawn
  <2>2. \A w \in drv.icons : IconLaid(w, LayoutFB, icon[w], drawn[w])
    BY <1>1 DEF IconLaid
  <2> QED BY <2>1, <2>2 DEF LaidOut
<1>7. OnTheDisplay
  <2> SUFFICES ASSUME NEW cell \in Own \cap Cells(DROWS, DCOLS) PROVE AsLaidOut(cell, LayoutFB, DisplayFB, device, glyphs)
    BY DEF OnTheDisplay
  <2>1. Address(cell) \in 0..DROWS * DCOLS - 1
    BY <1>2, DisplayCells DEF Addresses
  <2>2. LayoutFB[cell] = Blank /\ DisplayFB[Address(cell)] = Blank
        /\ device[Address(cell)].char = Blank /\ device[Address(cell)].look = <<"char", Blank>>
    BY <1>1, <2>1
  <2>3. LookOf(Blank, glyphs) = <<"char", Blank>>
    BY <1>1, <1>3 DEF LookOf
  <2> QED BY <2>2, <2>3 DEF AsLaidOut
<1> QED BY <1>2, <1>4, <1>5, <1>6, <1>7 DEF TextInv

LEMMA TextStep == TextInv /\ [TextNext]_textVars => TextInv'
<1> SUFFICES ASSUME TextInv, [TextNext]_textVars PROVE TextInv'
  OBVIOUS
<1>1. CASE \E w \in drv.texts : \E text \in w.texts : DrawText(w, text)
  BY <1>1, DrawTextKeeps
<1>2. CASE \E w \in drv.icons, visible \in BOOLEAN : \E map \in w.maps : DrawIcon(w, map, visible)
  BY <1>2, DrawIconKeeps
<1>3. CASE \E w \in drv.bars : \E val1, val2 \in w.vals : DrawBar(w, val1, val2)
  BY <1>3, DrawBarKeeps
<1>4. CASE UNCHANGED textVars
  <2> USE <1>4 DEF textVars
  <2>1. TextTypes'
    BY DEF TextInv, TextTypes, Addresses
  <2>2. BarsInPlace'
    BY DEF TextInv, BarsInPlace, InPlace, fSegment
  <2>3. IconsApart'
    BY DEF TextInv, IconsApart, CharsGiven, BitmapsKnown, IconsGiven
  <2>4. LaidOut'
    BY DEF TextInv, LaidOut, TextLaid, IconLaid
  <2>5. OnTheDisplay'
    BY DEF TextInv, OnTheDisplay, Own, AsLaidOut
  <2> QED BY <2>1, <2>2, <2>3, <2>4, <2>5 DEF TextInv
<1> QED BY <1>1, <1>2, <1>3, <1>4 DEF TextNext

\* Whatever texts, icons and bars draw (drv_generic_text_draw, icon_draw and bar_draw), the
\* layout has what texts and icons drew last, icons have different characters that the display
\* knows, bars define none of them, and the display has what the layout has where texts and
\* icons are.
THEOREM TextInductive == TextSpec => []TextInv
<1> QED BY TextInitial, TextStep, PTL DEF TextSpec

\* What is seen where a text or an icon may draw is what the layout has there.
LEMMA SeenAsLaidOut ==
    ASSUME TextInv, NEW cell \in Own, cell \in DOMAIN LayoutFB, OnDisplay(cell)
    PROVE  Seen(cell) = LookOf(LayoutFB[cell], glyphs)
<1>1. cell \in Cells(LROWS, LCOLS) /\ DROWS \in Nat /\ DCOLS \in Nat /\ LROWS \in Nat /\ LCOLS \in Nat
  BY DisplayAssumption DEF TextInv, TextTypes
<1>2. cell = <<cell[1], cell[2]>> /\ cell[1] \in 0..LROWS - 1 /\ cell[2] \in 0..LCOLS - 1
  BY <1>1 DEF Cells
<1>3. cell[1] \in 0..DROWS - 1 /\ cell[2] \in 0..DCOLS - 1
  BY <1>1, <1>2 DEF OnDisplay
<1>4. cell \in Cells(DROWS, DCOLS)
  BY <1>2, <1>3 DEF Cells
<1>5. AsLaidOut(cell, LayoutFB, DisplayFB, device, glyphs)
  BY <1>4 DEF TextInv, OnTheDisplay
<1> QED BY <1>5 DEF Seen, AsLaidOut

LEMMA TextInvShows == TextInv => TextsShown
<1> SUFFICES ASSUME TextInv PROVE TextsShown
  OBVIOUS
<1>1. LaidOut /\ CharsGiven /\ BitmapsKnown /\ drv \in TextSetups /\ glyphs = [c \in Definable(drv) |-> glyphs[c]]
  BY DEF TextInv, IconsApart, TextTypes
<1>2. \A char \in Written(drv) : LookOf(char, glyphs) = <<"char", char>>
  BY <1>1, CharsApart DEF LookOf
<1>3. ASSUME NEW w \in drv.texts, NEW i \in DOMAIN drawn[w], OnDisplay(<<w.row, w.col + i - 1>>)
      PROVE  Seen(<<w.row, w.col + i - 1>>) = <<"char", drawn[w][i]>>
  <2> DEFINE cell == <<w.row, w.col + i - 1>>
  <2>1. cell \in AreaOfText(w) /\ cell \in DOMAIN LayoutFB /\ LayoutFB[cell] = drawn[w][i] /\ LayoutFB[cell] \in Written(drv)
    BY <1>1 DEF LaidOut, TextLaid
  <2> HIDE DEF cell
  <2>2. cell \in Own
    BY <2>1 DEF Own
  <2>3. OnDisplay(cell)
    BY <1>3 DEF cell
  <2>4. Seen(cell) = LookOf(LayoutFB[cell], glyphs)
    BY <2>1, <2>2, <2>3, SeenAsLaidOut
  <2> QED BY <1>2, <2>1, <2>4 DEF cell
<1>4. ASSUME NEW w \in drv.icons, drawn[w] # Undrawn, OnDisplay(<<w.row, w.col>>)
      PROVE  Seen(<<w.row, w.col>>) = IF drawn[w][1] = "blank" THEN <<"char", Blank>> ELSE <<"icon", drawn[w][1]>>
  <2> DEFINE cell == <<w.row, w.col>>
  <2>1. cell \in DOMAIN LayoutFB /\ cell \in AreaOfIcon(w)
    BY <1>1, <1>4 DEF LaidOut, IconLaid, AreaOfIcon
  <2>2. \/ drawn[w] = <<"blank">> /\ LayoutFB[cell] = Blank
        \/ /\ drawn[w] = <<icon[w].prvmap>> /\ icon[w].prvmap \notin {"none", "blank"}
           /\ icon[w].ascii >= 0 /\ LayoutFB[cell] = icon[w].ascii
    BY <1>1, <1>4 DEF LaidOut, IconLaid
  <2> HIDE DEF cell
  <2>3. cell \in Own
    BY <2>1 DEF Own
  <2>4. Seen(cell) = LookOf(LayoutFB[cell], glyphs)
    BY <1>4, <2>1, <2>3, SeenAsLaidOut DEF cell
  <2>5. CASE drawn[w] = <<"blank">> /\ LayoutFB[cell] = Blank
    <3>1. Blank \in Written(drv)
      BY DEF Written
    <3> QED BY <1>2, <2>4, <2>5, <3>1 DEF cell
  <2>6. CASE /\ drawn[w] = <<icon[w].prvmap>> /\ icon[w].prvmap \notin {"none", "blank"}
             /\ icon[w].ascii >= 0 /\ LayoutFB[cell] = icon[w].ascii
    <3>1. glyphs[icon[w].ascii] = <<"icon", icon[w].prvmap>>
      BY <1>1, <2>6 DEF BitmapsKnown
    <3>2. icon[w].ascii \in IconChars(drv)
      BY <1>1, <2>6, GivenChar
    <3>3. icon[w].ascii \in DOMAIN glyphs
      BY <1>1, <3>2, OfSetup DEF IconChars, Definable
    <3>4. Seen(cell) = <<"icon", icon[w].prvmap>>
      BY <2>4, <2>6, <3>1, <3>3 DEF LookOf
    <3>5. drawn[w][1] = icon[w].prvmap /\ drawn[w][1] # "blank"
      BY <2>6
    <3> QED BY <3>4, <3>5 DEF cell
  <2> QED BY <2>2, <2>5, <2>6
<1> QED BY <1>3, <1>4 DEF TextsShown

\* drv_generic_text_blit sends only what differs from what it believes is shown, and other
\* widgets define characters anew and make that belief wrong on purpose: on the display, there
\* is always what a text or an icon drew last, as it looks now.
THEOREM TextsOnDisplay == TextSpec => []TextsShown
<1> QED BY TextInductive, TextInvShows, PTL
=============================================================================
