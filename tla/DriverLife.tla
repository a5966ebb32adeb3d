----------------------------- MODULE DriverLife -----------------------------
(***************************************************************************)
(* How a display driver starts, works and ends (drv.c, the start, init and *)
(* quit of every driver, drv_generic*.c): ports are opened and locked, the *)
(* display is cleared and greets the user, widgets draw into a layout, of  *)
(* which the driver sends what differs from what it sent before, and at    *)
(* the end the display is cleared, says goodbye, and the port is closed.   *)
(* Settings, devices and memory may be missing: the program then exits     *)
(* without the driver's quit, as it does when it crashes.                  *)
(*                                                                         *)
(* A display has two areas in a row that greetings are written to, "head", *)
(* and what lies beside them, "tail".  How they look is "blank",           *)
(* "greeting", "widget", "goodbye", or "rubbish" from before.              *)
(*                                                                         *)
(* What a stale lock's takeover is made of is one step here, although      *)
(* another program may come between.                                       *)
(***************************************************************************)
EXTENDS GraphicDriverSteps, TLC

CONSTANT Drivers        \* the drivers at work, of those in Driver

VARIABLES
    driver,     \* name of the driver
    quiet,      \* no greetings are wanted
    roomy,      \* the display has room for greetings
    stage,      \* "off", "starting", "running", "ending", "ended"
    todo,       \* steps of init or quit to be made yet
    port,       \* what is open, or "closed"
    lock,       \* lock file of the serial port: "none", "mine", "dead", "other"
    layout,     \* how the layout's areas look: LayoutFB, or the layers
    copy,       \* the driver's copy of it: DisplayFB, or a frame buffer
    Line,       \* the row a Crystalfontz 633 is sent as a whole
    glass,      \* what is seen
    waiting,    \* areas that have not been sent yet; of LCD2USB, which a clear in its buffer is for
    lit         \* a GPO is on

lifeVars == <<driver, quiet, roomy, stage, todo, port, lock, layout, copy, Line, glass, waiting, lit>>

Areas == {"head", "tail"}
Every(look) == [a \in Areas |-> look]
Greets == ~quiet /\ roomy

\* The drivers, by the names of their files: the steps of init and quit, and how a blit sends:
\* "changed": the areas that differ from its copy;  "always": the areas drawn;
\* "queued": the same as "changed", but a clear stays in a buffer until something else is sent;
\* "whole": everything, at every blit;  "Line": the row an area is in;
\* "timed", "timed whole": a timer sends what has changed, or everything then;
\* "paced": everything, unless it is too early.
Entry(init, quit, way) == [init |-> init, quit |-> quit, way |-> way]
Driver == [
    LCD2USB |-> Entry(drv_L2U_init, drv_L2U_quit, "queued"),
    ASTUSB |-> Entry(drv_AST_init, drv_AST_quit, "changed"),
    BWCT |-> Entry(drv_BW_init, drv_BW_quit, "changed"),
    Trefon |-> Entry(drv_TF_init, drv_TF_quit, "changed"),
    USBLCD_usb |-> Entry(drv_UL_init(TRUE), drv_UL_quit, "changed"),
    USBLCD_device |-> Entry(drv_UL_init(FALSE), drv_UL_quit, "changed"),
    picoLCD |-> Entry(drv_pL_init, drv_pL_quit, "changed"),
    LCDTerm |-> Entry(drv_LT_init, drv_LT_quit, "changed"),
    MilfordInstruments |-> Entry(drv_MI_init, drv_MI_quit, "changed"),
    MatrixOrbital |-> Entry(drv_MO_init, drv_MO_quit, "changed"),
    SimpleLCD |-> Entry(drv_SL_init, drv_SL_quit, "changed"),
    WincorNixdorf |-> Entry(drv_WN_init, drv_WN_quit, "changed"),
    M50530 |-> Entry(drv_M5_init, drv_M5_quit, "changed"),
    RouterBoard |-> Entry(drv_RB_init, drv_RB_quit, "changed"),
    LCDLinux |-> Entry(drv_LL_init, drv_LL_quit, "changed"),
    Curses |-> Entry(drv_Curs_init, drv_Curs_quit, "changed"),
    BeckmannEgle_MT |-> Entry(drv_BuE_init(FALSE), drv_BuE_quit, "changed"),
    BeckmannEgle_CT |-> Entry(drv_BuE_init(TRUE), drv_BuE_quit, "changed"),
    Cwlinux |-> Entry(drv_CW_init, drv_CW_quit, "changed"),
    FutabaVFD |-> Entry(drv_FutabaVFD_init, drv_FutabaVFD_quit, "changed"),
    FW8888 |-> Entry(drv_FW8888_init, drv_FW8888_quit, "changed"),
    IRLCD |-> Entry(drv_IRLCD_init, drv_IRLCD_quit, "changed"),
    LW_ABP_now |-> Entry(drv_LW_ABP_init, drv_LW_ABP_quit(FALSE), "changed"),
    LW_ABP_scheduled |-> Entry(drv_LW_ABP_init, drv_LW_ABP_quit(TRUE), "changed"),
    Newhaven |-> Entry(drv_Newhaven_init, drv_Newhaven_quit, "changed"),
    Pertelian |-> Entry(drv_Pertelian_init, drv_Pertelian_quit, "changed"),
    PHAnderson |-> Entry(drv_PHAnderson_init, drv_PHAnderson_quit, "changed"),
    Sample |-> Entry(drv_Sample_init, drv_Sample_quit, "changed"),
    ShuttleVFD |-> Entry(drv_ShuttleVFD_init, drv_ShuttleVFD_quit, "changed"),
    ula200 |-> Entry(drv_ula200_init, drv_ula200_quit, "changed"),
    EFN |-> Entry(drv_EFN_init, drv_EFN_quit, "changed"),
    Noritake |-> Entry(drv_Noritake_init, drv_Noritake_quit, "changed"),
    Crystalfontz_1 |-> Entry(drv_CF_init(1), drv_CF_quit, "changed"),
    Crystalfontz_2 |-> Entry(drv_CF_init(2), drv_CF_quit, "Line"),
    Crystalfontz_3 |-> Entry(drv_CF_init(3), drv_CF_quit, "changed"),
    HD44780_parport |-> Entry(drv_HD_init(FALSE), drv_HD_quit(FALSE), "changed"),
    HD44780_i2c |-> Entry(drv_HD_init(TRUE), drv_HD_quit(TRUE), "changed"),
    NULL |-> Entry(drv_NULL_init, drv_NULL_quit, "changed"),
    TeakLCM |-> Entry(drv_TeakLCM_init, drv_TeakLCM_quit, "changed"),
    T6963 |-> Entry(drv_T6_init, drv_T6_quit, "changed"),
    LPH7508 |-> Entry(drv_L7_init, drv_L7_quit, "changed"),
    EA232graphic |-> Entry(drv_EA232graphic_init, drv_EA232graphic_quit, "always"),
    dpf |-> Entry(drv_dpf_init, drv_dpf_quit, "changed"),
    G15 |-> Entry(drv_G15_init(FALSE), drv_G15_quit, "whole"),
    G15_keys |-> Entry(drv_G15_init(TRUE), drv_G15_quit, "whole"),
    GLCD2USB |-> Entry(drv_GLCD2USB_init, drv_GLCD2USB_quit, "changed"),
    Image |-> Entry(drv_IMG_init, drv_IMG_quit, "timed whole"),
    Bluetooth |-> Entry(drv_BT_init, drv_BT_quit, "timed whole"),
    LEDMatrix |-> Entry(drv_LEDMatrix_init, drv_LEDMatrix_quit, "whole"),
    LUIse |-> Entry(drv_LUIse_init(FALSE), drv_LUIse_quit, "always"),
    LUIse_picture |-> Entry(drv_LUIse_init(TRUE), drv_LUIse_quit, "always"),
    MatrixOrbitalGX |-> Entry(drv_MOGX_init, drv_MOGX_quit, "whole"),
    mdm166a |-> Entry(drv_MDM166A_init, drv_MDM166A_quit, "timed"),
    picoLCDGraphic |-> Entry(drv_pLG_init, drv_pLG_quit, "timed whole"),
    picoLCDGraphic_direct |-> Entry(drv_pLG_init, drv_pLG_quit, "whole"),
    D4D_graphic |-> Entry(drv_D4D_init(FALSE), drv_D4D_quit(FALSE, TRUE), "always"),
    D4D_text |-> Entry(drv_D4D_init(TRUE), drv_D4D_quit(TRUE, TRUE), "changed"),
    D4D_text_left |-> Entry(drv_D4D_init(TRUE), drv_D4D_quit(TRUE, FALSE), "changed"),
    SamsungSPF |-> Entry(drv_SamsungSPF_init(FALSE), drv_SamsungSPF_quit, "timed whole"),
    SamsungSPF_stored |-> Entry(drv_SamsungSPF_init(TRUE), drv_SamsungSPF_quit, "timed whole"),
    serdisplib |-> Entry(drv_SD_init, drv_SD_quit, "always"),
    st2205 |-> Entry(drv_st2205_init2, drv_st2205_quit2, "whole"),
    vnc |-> Entry(drv_vnc_init, drv_vnc_quit, "whole"),
    X11 |-> Entry(drv_X11_init, drv_X11_quit, "changed"),
    USBHUB |-> Entry(drv_UH_init, drv_UH_quit, "changed"),
    PICGraphic |-> Entry(drv_PICGraphic_init2, drv_PICGraphic_quit2, "paced")]
AllDrivers == DOMAIN Driver

ASSUME DriversAssumption == Drivers \subseteq AllDrivers

Way == Driver[driver].way
Does(step, steps) == \E i \in DOMAIN steps : steps[i] = step
Serial == Does("serial", Driver[driver].init)

LifeInit ==
    /\ driver \in Drivers /\ quiet \in BOOLEAN /\ roomy \in BOOLEAN /\ (quiet => roomy)
    /\ stage = "off" /\ todo = <<>> /\ port = "closed"
    /\ lock \in (IF Serial THEN {"none", "dead", "other"} ELSE {"none"})
    /\ layout = Every("rubbish") /\ copy = Every("rubbish") /\ Line = Every("blank")
    /\ glass = Every("rubbish") /\ waiting = {} /\ lit = Does("gpio", Driver[driver].init)

-----------------------------------------------------------------------------
(* What the generic drivers do. *)

pictureVars == <<layout, copy, Line, glass, waiting>>

\* The text display's copies, or the layers, are there, and empty.
drv_generic_text_init == layout' = Every("blank") /\ copy' = Every("blank")
drv_generic_graphic_init == layout' = Every("blank")

\* drv_generic_text_greet: a message goes to the display without its copies, and behind what
\* the driver has in its buffer.
drv_generic_text_greet(look) ==
    /\ glass' = [CASE Way = "Line" -> Line
                    [] Way = "queued" /\ waiting # {} -> Every("blank")
                    [] OTHER -> glass
                 EXCEPT !["head"] = look]
    /\ Line' = [Line EXCEPT !["head"] = look]
    /\ waiting' = (IF Way = "queued" THEN {} ELSE waiting)
    /\ UNCHANGED <<layout, copy>>

\* What a blit of the areas sends, and what waits then.  A picture that comes too early for
\* the display is not sent at all, and at the start every picture does.
Transfer(areas, now) ==
    LET changed == {a \in areas : copy'[a] # copy[a]} \cup waiting
        all == /\ glass' = copy' /\ waiting' = {}
        none == /\ glass' = glass /\ waiting' = waiting \cup changed
        some(as) == /\ glass' = [a \in Areas |-> IF a \in as THEN copy'[a] ELSE glass[a]]
                    /\ waiting' = waiting \ as
    IN  CASE Way = "changed" -> some(changed)
          [] Way = "queued" -> IF copy' = copy THEN none ELSE some(changed)
          [] Way = "always" -> some(areas)
          [] Way = "whole" -> all
          [] Way = "Line" -> IF changed = {} THEN none ELSE glass' = Line' /\ waiting' = waiting
          [] Way \in {"timed", "timed whole"} -> none
          [] Way = "paced" -> \/ all /\ now
                              \/ glass' = glass /\ waiting' = Areas

\* drv_generic_graphic_blit, drv_generic_text_blit
BlitAreas(areas, look) ==
    /\ layout' = [a \in Areas |-> IF a \in areas THEN look ELSE layout[a]]
    /\ copy' = [a \in Areas |-> IF a \in areas THEN look ELSE copy[a]]
    /\ Line' = [a \in Areas |-> IF a \in areas /\ copy[a] # look THEN look ELSE Line[a]]
    /\ Transfer(areas, stage # "starting")

\* A greeting is drawn as widgets are.
drv_generic_graphic_greet(look) == BlitAreas({"head"}, look)

\* Variant for mutation: the layers are cleared, and nothing is blit.
ClearsLayersOnly == layout' = Every("blank") /\ UNCHANGED <<copy, Line, glass, waiting>>

\* All layers are cleared and blit.
drv_generic_graphic_clear == BlitAreas(Areas, "blank")

\* A driver's own clear: neither the layout nor any copy of it changes.  The two bytes of
\* LCD2USB's stay in its buffer, which two clears fill.
Clear ==
    /\ IF Way = "queued" /\ waiting = {} THEN waiting' = Areas /\ glass' = glass
       ELSE glass' = Every("blank") /\ waiting' = (IF Way = "queued" THEN {} ELSE waiting)
    /\ UNCHANGED <<layout, copy, Line>>

\* Steps that change what is seen, or what is counted as seen.
Draws(step) ==
    CASE step = "clear" -> Clear
      [] step = "greet" /\ Greets -> drv_generic_text_greet("greeting")
      [] step = "ungreet" /\ Greets -> Clear
      [] step = "goodbye" /\ Greets -> drv_generic_text_greet("goodbye")
      [] step = "schedule" -> drv_generic_text_greet("goodbye")
      [] step = "draw greeting" /\ Greets -> drv_generic_graphic_greet("greeting")
      [] step = "undraw greeting" /\ Greets -> drv_generic_graphic_clear
      [] step = "draw blank" -> drv_generic_graphic_clear
      [] step = "draw goodbye" /\ Greets -> drv_generic_graphic_greet("goodbye")
      [] step = "text" -> drv_generic_text_init /\ UNCHANGED <<Line, glass, waiting>>
      [] step = "graphic" -> drv_generic_graphic_init /\ UNCHANGED <<copy, Line, glass, waiting>>
      [] step = "shadow" -> copy' = Every("blank") /\ UNCHANGED <<layout, Line, glass, waiting>>
      [] step = "flush" -> glass' = copy /\ waiting' = {} /\ UNCHANGED <<layout, copy, Line>>
      [] step = "mark" -> waiting' = Areas /\ UNCHANGED <<layout, copy, Line, glass>>
      [] step = "blank lines" -> Line' = Every("blank") /\ UNCHANGED <<layout, copy, glass, waiting>>
      [] OTHER -> UNCHANGED pictureVars

\* GPOs are put out at the start and at the end; a hub greets with its lights.
drv_generic_gpio_clear == lit' = FALSE
Lights(step) ==
    CASE step \in {"gpio", "gpio off"} -> drv_generic_gpio_clear
      [] step = "light all" /\ ~quiet -> lit' = TRUE
      [] step = "dark all" /\ ~quiet -> lit' = FALSE
      [] OTHER -> UNCHANGED lit

-----------------------------------------------------------------------------
(* Ports. *)

Ports == {"serial", "usb", "parport", "i2c", "device", "socket", "phone", "server", "file", "terminal", "iopl"}

\* drv_generic_serial_lock_port: a lock is taken where there is none, or where its owner is dead.
drv_generic_serial_lock_port == lock # "other" /\ lock' = "mine"

drv_generic_serial_open == drv_generic_serial_lock_port /\ port' = "serial"
drv_generic_parport_open == port' = "parport" /\ UNCHANGED lock
drv_generic_i2c_open == port' = "i2c" /\ UNCHANGED lock
Opens(step) ==
    \/ step = "serial" /\ drv_generic_serial_open
    \/ step = "parport" /\ drv_generic_parport_open
    \/ step = "i2c" /\ drv_generic_i2c_open
    \/ step \in Ports \ {"serial", "parport", "i2c"} /\ port' = step /\ UNCHANGED lock

\* Variant for mutation: the file is left.
LeavesLock == UNCHANGED lock

\* The file is removed, whoever wrote it.
drv_generic_serial_unlock_port == lock' = "none"

drv_generic_serial_close == port' = "closed" /\ drv_generic_serial_unlock_port
drv_generic_parport_close == port' = "closed" /\ UNCHANGED lock
Closes(step) ==
    /\ step = "close"
    /\ IF Serial THEN drv_generic_serial_close ELSE drv_generic_parport_close

-----------------------------------------------------------------------------
(* The program. *)

\* drv_init: the driver's init is called.
drv_init ==
    /\ stage = "off"
    /\ stage' = "starting" /\ todo' = Driver[driver].init
    /\ layout' = Every("rubbish") /\ copy' = Every("rubbish") /\ Line' = Every("blank") /\ waiting' = {}
    /\ UNCHANGED <<driver, quiet, roomy, port, lock, glass, lit>>

\* drv_quit: the program was told to end.
drv_quit ==
    /\ stage = "running"
    /\ stage' = "ending" /\ todo' = Driver[driver].quit
    /\ UNCHANGED <<driver, quiet, roomy, port, lock, pictureVars, lit>>

\* The next step of init or quit.
Step ==
    /\ todo # <<>> /\ todo' = Tail(todo)
    /\ stage' = (IF todo' # <<>> THEN stage ELSE IF stage = "starting" THEN "running" ELSE "ended")
    /\ \/ Opens(Head(todo))
       \/ Closes(Head(todo))
       \/ Head(todo) \notin Ports \cup {"close"} /\ UNCHANGED <<port, lock>>
    /\ Draws(Head(todo)) /\ Lights(Head(todo))
    /\ UNCHANGED <<driver, quiet, roomy>>

\* The process is gone: the kernel has closed what was open, the lock file names a dead process.
Gone ==
    /\ stage' = "off" /\ todo' = <<>> /\ port' = "closed"
    /\ lock' = (IF lock = "mine" THEN "dead" ELSE lock)
    /\ UNCHANGED <<driver, quiet, roomy, pictureVars, lit>>

\* What the step needs is not there: init returns an error, and the program exits.  Whether a
\* phone was found or a VNC server could listen is not looked at.
Refused ==
    /\ stage = "starting"
    /\ Head(todo) \in {"settings", "memory", "probe", "find", "wires", "claim", "text", "graphic"}
                      \cup (Ports \ {"phone", "server"})
    /\ Gone

\* It crashes, is killed, or finds no layout (lcd4linux.c).
Crash == stage \in {"starting", "running", "ending"} /\ Gone

\* The driver has quit, and the program exits; the next start may be that of a new one.
Exit == stage = "ended" /\ Gone

\* A widget draws.
Draw ==
    /\ stage = "running"
    /\ Does("text", Driver[driver].init) \/ Does("graphic", Driver[driver].init)
    /\ \E a \in Areas, look \in {"blank", "widget"} : BlitAreas({a}, look)
    /\ UNCHANGED <<driver, quiet, roomy, stage, todo, port, lock, lit>>

\* A timed driver's timer: it sends the areas that wait, or everything if one does.
SendWaiting ==
    /\ stage = "running" /\ Way \in {"timed", "timed whole"} /\ waiting # {}
    /\ glass' = [a \in Areas |-> IF a \in waiting \/ Way = "timed whole" THEN copy[a] ELSE glass[a]]
    /\ waiting' = {}
    /\ UNCHANGED <<driver, quiet, roomy, stage, todo, port, lock, layout, copy, Line, lit>>

\* A GPO widget switches its light.
Light ==
    /\ stage = "running" /\ Does("gpio", Driver[driver].init)
    /\ lit' = ~lit
    /\ UNCHANGED <<driver, quiet, roomy, stage, todo, port, lock, pictureVars>>

\* Another program locks the serial port, and unlocks it.
OtherLocks ==
    /\ Serial /\ lock \in {"none", "dead"} /\ lock' = "other"
    /\ UNCHANGED <<driver, quiet, roomy, stage, todo, port, pictureVars, lit>>
OtherUnlocks ==
    /\ lock = "other" /\ lock' = "none"
    /\ UNCHANGED <<driver, quiet, roomy, stage, todo, port, pictureVars, lit>>

LifeNext ==
    \/ drv_init \/ drv_quit \/ Step \/ Refused \/ Crash \/ Exit
    \/ Draw \/ SendWaiting \/ Light \/ OtherLocks \/ OtherUnlocks

LifeSpec == LifeInit /\ [][LifeNext]_lifeVars

-----------------------------------------------------------------------------
(* Properties. *)

\* Displays that show something else than their layout for a time.  Without a greeting nobody
\* has sent all of the picture: what was seen before, grey, or memory that was never written
\* shows between the widgets.
NeverSentWhole ==
    /\ driver \in {"GLCD2USB", "LUIse", "st2205", "vnc", "SamsungSPF", "SamsungSPF_stored"}
    /\ driver = "GLCD2USB" \/ ~Greets

\* With one, the greeting is still in the frame, or in the row's line, and comes back with a
\* widget; the connection of a Teak LCM is made by a timer (module TeakLCM).
GreetingKept ==
    driver \in {"mdm166a", "picoLCDGraphic", "picoLCDGraphic_direct", "Crystalfontz_2"} /\ Greets

\* While the program runs, a display shows what its layout holds, as far as that does not wait
\* for a timer, or, before a widget has changed anything of LCD2USB, in its buffer: nothing of the greeting, of an earlier run or of a program before this one is
\* left, and no widget that believes itself shown is not (the order of clear, greeting and the
\* initialisation of copies in the drivers' start and init).
ShowsLayout ==
    stage = "running" /\ waiting = {} /\ ~NeverSentWhole /\ ~GreetingKept /\ driver \notin {"TeakLCM", "NULL", "USBHUB"}
        => glass = layout

\* Drivers that leave the last picture, lights, or an open device when they quit.
\* What should clear the picture waits for a timer that will not fire any more, comes too early,
\* stays in the buffer when no goodbye follows (LCD2USB), or a goodbye brings back what the frame
\* or the row's line still holds.
LeavesPicture ==
    \/ driver = "LCD2USB" /\ ~Greets
    \/ driver \in {"GLCD2USB", "Image", "Bluetooth", "LEDMatrix", "X11", "PICGraphic",
                  "Crystalfontz_2", "D4D_text_left", "SamsungSPF", "SamsungSPF_stored",
                  "picoLCDGraphic_direct", "NULL"}
LeavesLights == driver \in {"picoLCD", "mdm166a", "picoLCDGraphic", "picoLCDGraphic_direct"}
LeavesOpen == driver \in {"RouterBoard", "Image", "X11"}

\* After drv_quit no widget and no greeting is left on the display, no light is on, the port is
\* closed and its lock is removed, so that the next program finds all of it free.
LeftInOrder ==
    stage = "ended" =>
        /\ LeavesPicture \/ \A a \in Areas : glass[a] \notin {"widget", "greeting"}
        /\ LeavesLights \/ ~lit
        /\ LeavesOpen \/ port = "closed"
        /\ lock # "mine"

\* Steps that talk with the display; what waits for a timer does not.
Sending == {"set", "ask", "clear", "greet", "ungreet", "goodbye", "schedule", "flush", "handshake",
            "gpio", "gpio off", "light all", "dark all"}
           \cup (IF Way \in {"timed", "timed whole"} THEN {}
                 ELSE {"draw greeting", "undraw greeting", "draw blank", "draw goodbye"})

\* Nothing is sent to a display whose port is not open yet, or is closed already, and a serial
\* port is used only by the program that holds its lock.
SentWhileOpen ==
    /\ todo # <<>> /\ Head(todo) \in Sending /\ driver # "NULL" => port # "closed"
    /\ port = "serial" => lock = "mine"

\* The device and the display are handed over in order: opened and locked before they are used,
\* cleared, darkened, closed and unlocked at the end.
HandedOver == LeftInOrder /\ SentWhileOpen
=============================================================================
