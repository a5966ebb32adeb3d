------------------------- MODULE GraphicDriverSteps -------------------------
(***************************************************************************)
(* What the drivers of graphic displays do when the program starts and     *)
(* ends, in the same way as TextDriverSteps.                               *)
(***************************************************************************)
EXTENDS TextDriverSteps

\* A greeting that is drawn into the layers, and erased from them.
GreetDrawn == <<"draw greeting", "undraw greeting">>

\* T6963 at a parallel port.
drv_T6_start == <<"settings", "memory", "shadow", "parport", "wires", "set", "clear">>
drv_T6_init == drv_T6_start \o <<"graphic">> \o GreetDrawn
drv_T6_quit == <<"draw blank", "draw goodbye", "free graphic", "close">>

\* LPH7508 at a parallel port.
drv_L7_start == <<"settings", "memory", "shadow", "parport", "wires", "set", "clear", "set">>
drv_L7_init == drv_L7_start \o <<"graphic", "gpio">> \o GreetDrawn \o <<"plugins">>
drv_L7_quit == <<"draw blank", "draw goodbye", "free graphic", "gpio off", "close">>

\* Electronic Assembly's graphic displays at a serial port with handshake.
drv_EA232graphic_open == <<"serial", "handshake">>
drv_EA232graphic_start == <<"settings">> \o drv_EA232graphic_open \o <<"clear", "set">>
drv_EA232graphic_init == drv_EA232graphic_start \o <<"graphic", "gpio">> \o GreetDrawn \o <<"plugins">>
drv_EA232graphic_quit == <<"draw blank", "draw goodbye", "free graphic", "gpio off", "close">>

\* DPF picture frames: all of the picture is marked to be sent first.
drv_dpf_start == <<"settings", "usb", "claim", "ask", "shadow", "mark", "set">>
drv_dpf_init == drv_dpf_start \o <<"graphic">> \o GreetDrawn \o <<"plugins">>
drv_dpf_quit == <<"draw blank", "draw goodbye", "free graphic", "close">>

\* G15 keyboards: a thread reads the keys, if they are wanted.
drv_G15_open == <<"usb", "claim">>
drv_G15_initKeyHandling == <<"probe", "keypad">>
drv_G15_start(keys) == <<"settings", "memory", "shadow">> \o drv_G15_open \o <<"flush">>
                       \o (IF keys THEN drv_G15_initKeyHandling ELSE <<>>)
drv_G15_init(keys) == drv_G15_start(keys) \o <<"graphic">> \o GreetDrawn
drv_G15_quit == <<"draw blank", "draw goodbye", "free graphic", "keypad off", "close">>

\* GLCD2USB: the display is taken and given back; nothing clears it.
drv_GLCD2USB_start == <<"settings", "usb", "probe", "shadow", "probe", "timer", "set">>
drv_GLCD2USB_init == drv_GLCD2USB_start \o <<"graphic", "keypad", "plugins">>
drv_GLCD2USB_quit == <<"free graphic", "keypad off", "set", "close">>

\* Pictures in a file.
drv_IMG_start == <<"settings", "memory", "shadow", "file", "flush", "timer">>
drv_IMG_init == drv_IMG_start \o <<"graphic">>
drv_IMG_quit == <<"free graphic">>

\* Pictures for the phone; whether a phone was found makes no difference to the start.
drv_BT_find_SDP == <<"look">>
drv_BT_socket_init == <<"phone">>
drv_BT_start == <<"settings", "memory", "shadow">> \o drv_BT_find_SDP \o drv_BT_socket_init
                \o <<"flush", "timer">>
drv_BT_init == drv_BT_start \o <<"graphic">>
drv_BT_quit == <<"free graphic", "close">>

\* LED matrix by UDP: every packet holds the whole picture.
drv_LEDMatrix_start == <<"settings", "find", "socket", "shadow", "mark">>
drv_LEDMatrix_init == drv_LEDMatrix_start \o <<"graphic">>
drv_LEDMatrix_quit == <<"free graphic", "close">>

\* LUIse: what was shown is cleared for a picture behind the widgets only.
drv_LUIse_start(picture) == <<"settings", "device", "settings", "probe", "settings", "set">>
                            \o (IF picture THEN <<"clear", "probe">> ELSE <<>>)
drv_LUIse_init(picture) == drv_LUIse_start(picture) \o <<"graphic">> \o GreetDrawn \o <<"plugins">>
drv_LUIse_quit == <<"clear", "set", "draw goodbye", "free graphic", "close">>

\* Matrix Orbital GX: every transfer holds the whole picture.
drv_MOGX_open == <<"usb", "claim">>
drv_MOGX_start == <<"settings">> \o drv_MOGX_open \o <<"memory", "shadow", "mark", "set">>
drv_MOGX_init == drv_MOGX_start \o <<"graphic">> \o GreetDrawn \o <<"plugins", "shadow">>
drv_MOGX_quit == <<"shadow", "flush", "free graphic", "close">>

\* Futaba MDM166A: it is greeted before the layers are there, and the frame that a timer will
\* send still holds the greeting when the display is cleared.
drv_MDM166A_open == <<"usb", "claim">>
drv_MDM166A_start == <<"settings", "memory", "shadow">> \o drv_MDM166A_open
                     \o <<"clear", "set", "draw greeting", "ungreet", "timer">>
drv_MDM166A_init == drv_MDM166A_start \o <<"graphic", "gpio", "plugins">>
drv_MDM166A_quit == <<"clear", "draw goodbye", "close", "free graphic">>

\* picoLCD graphic: greeted in the same way.
drv_pLG_open == <<"usb", "claim">>
drv_pLG_start == <<"settings">> \o drv_pLG_open
                 \o <<"memory", "shadow", "set", "clear", "draw greeting", "ungreet", "timer">>
drv_pLG_init == drv_pLG_start \o <<"graphic", "keypad", "gpio", "plugins">>
drv_pLG_quit == <<"clear", "draw goodbye", "close", "free graphic", "keypad off">>

\* 4D Systems' displays show graphic, or text with their own fonts; they are cleared at the
\* end only when their power is switched off.
drv_D4D_open == <<"serial", "probe", "ask">>
drv_D4D_start == drv_D4D_open \o <<"ask", "probe", "settings", "set", "clear">>
drv_D4D_init(text) == drv_D4D_start \o (IF text THEN Greet \o <<"text", "icons", "bars">>
                                        ELSE GreetDrawn \o <<"graphic">>) \o <<"plugins">>
drv_D4D_quit(text, cycle) == (IF text THEN <<"free text">> ELSE <<>>) \o (IF cycle THEN <<"clear">> ELSE <<>>)
                             \o (IF text THEN <<"goodbye">> ELSE <<"draw goodbye", "free graphic">>)
                             \o <<"set", "close">>

\* Samsung photo frames start as a mass storage and are found again as a monitor.  The frame
\* is grey before it is drawn.
drv_SamsungSPF_find == <<"find">>
drv_SamsungSPF_open(stored) == (IF stored THEN <<"usb", "ask">> \o drv_SamsungSPF_find ELSE <<>>)
                              \o <<"probe", "usb">>
drv_SamsungSPF_start == <<"settings", "timer">>
drv_SamsungSPF_init(stored) == <<"settings">> \o drv_SamsungSPF_find \o drv_SamsungSPF_open(stored)
                               \o drv_SamsungSPF_start \o <<"graphic">> \o GreetDrawn
drv_SamsungSPF_quit == <<"draw blank", "draw goodbye", "free graphic", "close">>

\* Displays of serdisplib, which keeps their picture.
drv_SD_start == <<"settings", "device", "settings", "probe", "settings", "clear", "set">>
drv_SD_init == drv_SD_start \o <<"graphic">> \o GreetDrawn \o <<"plugins">>
drv_SD_quit == <<"draw blank", "draw goodbye", "free graphic", "close">>

\* Photo frames with a ST2205; the picture that is sent is not initialised.
drv_st2205_open == <<"settings", "device">>
drv_st2205_start2 == <<"settings">> \o drv_st2205_open \o <<"mark">>
drv_st2205_init2 == drv_st2205_start2 \o <<"graphic">> \o GreetDrawn \o <<"plugins">>
drv_st2205_quit2 == <<"draw blank", "draw goodbye", "free graphic", "close">>

\* A VNC server, whose picture is not initialised either.
drv_vnc_open == <<"settings">>
drv_vnc_start == <<"settings">> \o drv_vnc_open \o <<"server", "mark">>
drv_vnc_init == drv_vnc_start \o <<"graphic", "keypad">> \o GreetDrawn
drv_vnc_quit == <<"draw blank", "draw goodbye", "free graphic", "keypad off", "close">>

\* A window: its background, then every pixel.  It stays as it is until the program ends.
drv_X11_start == <<"settings", "memory", "shadow", "socket", "probe", "set", "timer">>
drv_X11_init == drv_X11_start \o <<"graphic", "keypad", "draw blank", "flush">> \o GreetDrawn \o <<"plugins">>
drv_X11_quit == <<"free graphic", "keypad off">>

\* USB hubs have lights only: green ones to greet, amber ones for a goodbye.
drv_UH_open == <<"find", "usb">>
drv_UH_start == <<"settings">> \o drv_UH_open \o <<"ask", "probe">>
drv_UH_init == drv_UH_start \o <<"gpio", "light all", "dark all">>
drv_UH_quit == <<"light all", "gpio off", "close">>

\* PICGraphic: a timer limits the rate of the pictures; one that comes too early is not sent.
drv_PICGraphic_open == <<"serial">>
drv_PICGraphic_start2 == <<"settings", "memory", "shadow", "mark", "timer">> \o drv_PICGraphic_open
                         \o <<"ask", "set">>
drv_PICGraphic_init2 == drv_PICGraphic_start2 \o <<"graphic">> \o GreetDrawn \o <<"plugins">>
drv_PICGraphic_quit2 == <<"draw blank", "gpio off", "draw goodbye", "free graphic", "close">>
=============================================================================
