------------------------------ MODULE MCSmall ------------------------------
(* Five small parts: the frame pipe, a text widget's scroller, the pid file, *)
(* the integers of a timer, and the drivers of text displays.  One instance  *)
(* of them for TLC: every behaviour is one of a single part, and the other   *)
(* parts rest.                                                               *)
EXTENDS FramePipe, TextWidget, PidFile, TimerWidth, TextDrivers

CONSTANTS pipe, widget, pid, timer, textDriver      \* model values: the parts

VARIABLE part

\* A string for a field of any width, and two that may have to be scrolled.
MCStrings == {<<"a">>, <<"b", "c", "d", "e">>, <<"f", "g">>}
MCAffixes == {<<>>, <<"[">>}

\* Drivers, and the sizes of displays they are used with.
Panel(name, cols, rows, hd66712) == [driver |-> name, CCOLS |-> cols, CROWS |-> rows, hd66712 |-> hd66712]
One(names, cols, rows) == {Panel(n, <<cols>>, <<rows>>, FALSE) : n \in names}
MCPanels ==
    {Panel("HD44780", <<40, 40>>, <<2, 2>>, FALSE), Panel("HD44780", <<20, 8>>, <<2, 2>>, FALSE),
     Panel("HD44780", <<8, 16>>, <<1, 4>>, FALSE), Panel("HD44780", <<16, 16, 16>>, <<2, 2, 2>>, FALSE),
     Panel("HD44780", <<20, 20, 20, 20>>, <<1, 2, 1, 2>>, FALSE), Panel("HD44780", <<20>>, <<4>>, TRUE),
     Panel("RouterBoard", <<20>>, <<4>>, TRUE), Panel("Trefon", <<20>>, <<4>>, TRUE),
     Panel("LCD2USB", <<40, 40>>, <<2, 2>>, FALSE)}
    \cup One({"HD44780", "BWCT", "LCD2USB", "USBLCD", "LCDTerm", "RouterBoard", "ULA200", "ASTUSB", "MatrixOrbital"}, 16, 4)
    \cup One({"HD44780", "ASTUSB", "BWCT", "LCDTerm", "IRLCD", "LCD2USB", "USBLCD", "MilfordInstruments", "Newhaven",
              "Pertelian", "RouterBoard", "ULA200", "M50530", "BeckmannEgle MT", "BeckmannEgle CT", "Crystalfontz 1",
              "Crystalfontz 3", "Cwlinux", "LW_ABP", "MatrixOrbital full", "PHAnderson", "picoLCD", "Sample",
              "SimpleLCD vt100", "WincorNixdorf", "Curses", "EFN", "FutabaVFD", "LCDLinux", "SimpleLCD"}, 20, 4)
    \cup One({"HD44780", "Trefon", "FW8888", "Crystalfontz 2", "Cwlinux", "MatrixOrbital full"}, 16, 2)
    \cup One({"MilfordInstruments", "USBLCD"}, 40, 2)
    \cup One({"Trefon"}, 8, 1) \cup One({"ShuttleVFD"}, 20, 1) \cup One({"Noritake"}, 21, 4)
    \cup One({"M50530"}, 24, 8) \cup One({"M50530"}, 40, 4)

smallVars == <<part, pipeVars, widgetVars, pidVars, widthVars, textDriverVars>>

SmallInit ==
    /\ part \in {pipe, widget, pid, timer, textDriver}
    /\ PipeInit
    /\ TextWidgetInit /\ (part # widget => width = 3 /\ align = "marquee")
    /\ PidInit /\ (part # pid => file = NoPid)
    /\ WidthInit
    /\ TextDriverInit /\ (part # textDriver => panel = Display(Panel("Sample", <<20>>, <<4>>, FALSE)))

SmallNext ==
    \/ part = pipe /\ PipeNext /\ UNCHANGED <<part, widgetVars, pidVars, widthVars, textDriverVars>>
    \/ part = widget /\ TextWidgetNext /\ UNCHANGED <<part, pipeVars, pidVars, widthVars, textDriverVars>>
    \/ part = pid /\ PidNext /\ UNCHANGED <<part, pipeVars, widgetVars, widthVars, textDriverVars>>
    \/ part = timer /\ WidthNext /\ UNCHANGED <<part, pipeVars, widgetVars, pidVars, textDriverVars>>
    \/ part = textDriver /\ TextDriverNext /\ UNCHANGED <<part, pipeVars, widgetVars, pidVars, widthVars>>

\* The fairness of each part's specification, as long as that part is at work.
SmallSpec ==
    /\ SmallInit /\ [][SmallNext]_smallVars
    /\ WF_pipeVars(part = pipe /\ Flush)
    /\ WF_pipeVars(part = pipe /\ Write)
    /\ WF_pipeVars(part = pipe /\ WriteFails)
    /\ WF_pipeVars(part = pipe /\ \E k \in 1..Units : Read(k))
    /\ WF_pipeVars(part = pipe /\ (ReadEnd \/ ReadThrows))
    /\ WF_pipeVars(part = pipe /\ Check)
    /\ WF_pipeVars(part = pipe /\ Deliver)
    /\ WF_widgetVars(part = widget /\ Scroll)
=============================================================================
