-------------------------- MODULE TextDriverSteps ---------------------------
(***************************************************************************)
(* What the drivers of text displays do when the program starts and ends:  *)
(* the steps of every driver's start, init and quit in the order of its    *)
(* code, each under the name it has in DriverLife, where it has a meaning. *)
(***************************************************************************)
EXTENDS Sequences

\* A greeting for some seconds, which is cleared again if there was room for it.
Greet == <<"greet", "ungreet">>

\* LCD2USB; its clear only goes into a buffer, see "queued" in DriverLife.
drv_L2U_open == <<"usb", "claim">>
drv_L2U_start == <<"settings">> \o drv_L2U_open \o <<"probe", "timer", "set", "clear">> \o Greet
drv_L2U_init == drv_L2U_start \o <<"text", "icons", "bars", "keypad", "plugins">>
drv_L2U_quit == <<"free text", "keypad off", "clear", "goodbye", "close">>

\* AST USB LCD; its backlight is switched on at the start and off at the end.
drv_AST_HW_open == <<"usb", "claim">>
drv_AST_start == <<"settings">> \o drv_AST_HW_open \o <<"ask", "probe", "set", "clear">> \o Greet
drv_AST_init == drv_AST_start \o <<"text", "icons", "bars", "plugins">>
drv_AST_quit == <<"free text", "clear", "goodbye", "set", "close">>

\* BWCT.
drv_BW_open == <<"usb", "claim">>
drv_BW_start == <<"settings">> \o drv_BW_open \o <<"set", "clear">> \o Greet
drv_BW_init == drv_BW_start \o <<"text", "icons", "bars", "plugins">>
drv_BW_quit == <<"free text", "clear", "goodbye", "close">>

\* Trefon.
drv_TF_open == <<"usb", "claim">>
drv_TF_start == <<"settings">> \o drv_TF_open \o <<"set", "clear">> \o Greet
drv_TF_init == drv_TF_start \o <<"text", "icons", "bars", "plugins">>
drv_TF_quit == <<"free text", "clear", "goodbye", "close">>

\* USBLCD by libusb, or by the driver of the kernel, whose versions are asked.
drv_UL_open == <<"usb", "claim">>
drv_UL_start(usb) == <<"settings">> \o (IF usb THEN drv_UL_open ELSE <<"device", "probe">>)
                     \o <<"memory", "set", "clear">> \o Greet
drv_UL_init(usb) == drv_UL_start(usb) \o <<"text", "icons", "bars">>
drv_UL_quit == <<"set", "free text", "clear", "goodbye", "close">>

\* picoLCD; what its GPOs drive is left as it is at the end.
drv_pL_open == <<"usb", "claim">>
drv_pL_start == <<"settings">> \o drv_pL_open \o <<"memory", "set", "clear">> \o Greet
drv_pL_init == drv_pL_start \o <<"text", "icons", "bars", "gpio", "plugins">>
drv_pL_quit == <<"free text", "clear", "goodbye", "close">>

\* LCDTerm: the port is opened before the settings are read.
drv_LT_start == <<"serial", "settings", "set", "clear">> \o Greet
drv_LT_init == drv_LT_start \o <<"text", "icons", "bars">>
drv_LT_quit == <<"free text", "clear", "goodbye", "close">>

\* Milford Instruments.
drv_MI_start == <<"settings", "serial", "clear", "set">> \o Greet
drv_MI_init == drv_MI_start \o <<"text", "icons", "bars">>
drv_MI_quit == <<"free text", "clear", "goodbye", "close">>

\* Matrix Orbital: the model is asked for, and may be another than the one in the settings.
drv_MO_start == <<"settings", "serial", "probe", "ask", "set", "clear", "set">> \o Greet
drv_MO_init == drv_MO_start \o <<"text", "icons", "bars", "gpio", "plugins">>
drv_MO_quit == <<"free text", "gpio off", "clear", "goodbye", "close">>

\* A simple display, or a terminal that understands VT100.
drv_SL_start == <<"serial", "settings", "memory", "clear">> \o Greet
drv_SL_init == drv_SL_start \o <<"text">>
drv_SL_quit == <<"free text", "clear", "goodbye", "close">>

\* Wincor Nixdorf.
drv_WN_start == <<"settings", "serial", "ask", "clear">> \o Greet
drv_WN_init == drv_WN_start \o <<"text", "bars">>
drv_WN_quit == <<"free text", "clear", "goodbye", "close">>

\* M50530 at a parallel port.
drv_M5_start == <<"settings", "parport", "wires", "set", "clear">> \o Greet
drv_M5_init == drv_M5_start \o <<"text", "icons", "bars", "gpio">>
drv_M5_quit == <<"free text", "gpio off", "clear", "goodbye", "set", "close">>

\* RouterBoard: every command asks for the right to use the port.
drv_RB_start == <<"settings", "iopl", "set", "settings", "set", "clear", "set">> \o Greet
drv_RB_init == drv_RB_start \o <<"text", "icons", "bars", "gpio", "plugins">>
drv_RB_quit == <<"free text", "gpio off", "clear", "goodbye">>

\* LCD-Linux: the kernel's driver is asked for the size, and told another one.
drv_LL_start == <<"settings", "device", "probe", "probe", "clear", "set">> \o Greet
drv_LL_init == drv_LL_start \o <<"text", "icons", "bars">>
drv_LL_quit == <<"free text", "clear", "goodbye", "set", "close">>

\* Curses: only in the foreground; the timer that reads keys is there before the window is.
drv_Curs_start == <<"settings", "terminal", "clear">> \o Greet
drv_Curs_init == <<"timer">> \o drv_Curs_start \o <<"text", "bars", "keypad">>
drv_Curs_quit == <<"free text", "keypad off", "clear", "goodbye", "close">>

\* Beckmann & Egle: the small displays, and the terminals that know what is connected.
drv_BuE_MT_start == <<"serial", "set">>
drv_BuE_CT_start == <<"serial", "set", "ask", "settings", "set", "ask">>
drv_BuE_start(terminal) == <<"settings">> \o (IF terminal THEN drv_BuE_CT_start ELSE drv_BuE_MT_start)
                           \o <<"clear">>
drv_BuE_init(terminal) == drv_BuE_start(terminal) \o Greet \o <<"text", "icons", "bars", "plugins">>
drv_BuE_quit == <<"free text", "clear", "goodbye", "close">>

\* Cwlinux.
drv_CW_start == <<"settings", "serial", "ask", "timer", "clear", "set">>
drv_CW_init == drv_CW_start \o Greet \o <<"text", "icons", "bars", "gpio", "keypad", "plugins">>
drv_CW_quit == <<"free text", "gpio off", "keypad off", "clear", "goodbye", "close">>

\* Futaba VFD.
drv_FutabaVFD_open == <<"parport", "wires", "set">>
drv_FutabaVFD_start == <<"settings">> \o drv_FutabaVFD_open \o <<"set", "clear">>
drv_FutabaVFD_init == drv_FutabaVFD_start \o Greet \o <<"text", "icons", "bars", "plugins">>
drv_FutabaVFD_quit == <<"free text", "clear", "goodbye", "close">>

\* FW8888.
drv_FW8888_open == <<"serial">>
drv_FW8888_start == drv_FW8888_open \o <<"clear">>
drv_FW8888_init == drv_FW8888_start \o Greet \o <<"text">>
drv_FW8888_quit == <<"free text", "clear", "goodbye", "close">>

\* IRLCD: it goes on when the interface cannot be claimed.
drv_IRLCD_open == <<"usb">>
drv_IRLCD_start == <<"settings">> \o drv_IRLCD_open \o <<"clear">>
drv_IRLCD_init == drv_IRLCD_start \o Greet \o <<"text", "icons", "bars">>
drv_IRLCD_quit == <<"free text", "clear", "goodbye", "close">>

\* Logic Way ABP: at the end the display tells the time at which it switches, if there is one.
drv_LW_ABP_open == <<"serial">>
drv_LW_ABP_start == <<"settings">> \o drv_LW_ABP_open \o <<"set", "clear">>
drv_LW_ABP_init == <<"timer">> \o drv_LW_ABP_start \o Greet \o <<"text", "icons", "bars", "keypad", "plugins">>
drv_LW_ABP_quit(scheduled) == <<"free text", "keypad off", "clear">>
                              \o (IF scheduled THEN <<"schedule">> ELSE <<"goodbye">>) \o <<"close">>

\* Newhaven at the I2C bus.
drv_Newhaven_open == <<"i2c">>
drv_Newhaven_start == <<"settings">> \o drv_Newhaven_open \o <<"set", "clear">>
drv_Newhaven_init == drv_Newhaven_start \o Greet \o <<"text", "icons", "bars", "plugins">>
drv_Newhaven_quit == <<"free text", "clear", "goodbye", "close">>

\* Pertelian; its backlight is switched off at the end.
drv_Pertelian_open == <<"serial">>
drv_Pertelian_start == <<"settings">> \o drv_Pertelian_open \o <<"set", "clear">>
drv_Pertelian_init == drv_Pertelian_start \o Greet \o <<"text", "icons", "bars", "plugins">>
drv_Pertelian_quit == <<"free text", "clear", "goodbye", "set", "close">>

\* PHAnderson; the size, the backlight and the boot screen are kept by the display.
drv_PHAnderson_open == <<"serial">>
drv_PHAnderson_start == <<"settings">> \o drv_PHAnderson_open \o <<"set", "clear">>
drv_PHAnderson_init == drv_PHAnderson_start \o Greet \o <<"text", "icons", "bars", "plugins">>
drv_PHAnderson_quit == <<"free text", "clear", "goodbye", "close">>

\* The sample driver opens a serial and a parallel port.
drv_Sample_open == <<"serial", "parport", "wires", "set">>
drv_Sample_start == <<"settings">> \o drv_Sample_open \o <<"set", "clear">>
drv_Sample_init == drv_Sample_start \o Greet \o <<"text", "icons", "bars", "gpio", "plugins">>
drv_Sample_quit == <<"free text", "gpio off", "clear", "goodbye", "close">>

\* Shuttle VFD: its GPOs are the icons of the display, put out after the goodbye.
drv_ShuttleVFD_open == <<"usb", "claim">>
drv_ShuttleVFD_start == <<"settings">> \o drv_ShuttleVFD_open \o <<"clear">>
drv_ShuttleVFD_init == drv_ShuttleVFD_start \o Greet \o <<"text", "gpio">>
drv_ShuttleVFD_quit == <<"clear", "goodbye", "free text", "gpio off", "close">>

\* ULA 200 by libftdi; its backlight is switched off before it is cleared.
drv_ula200_open == <<"memory", "usb", "claim">>
drv_ula200_start == <<"settings">> \o drv_ula200_open \o <<"probe", "clear", "set">>
drv_ula200_init == drv_ula200_start \o Greet \o <<"text", "icons", "bars", "plugins">>
drv_ula200_quit == <<"free text", "set", "clear", "goodbye", "close">>

\* EFN modules: one connection configures them, the other takes text.  Nobody is greeted, and
\* the goodbye is cleared again when the connection is closed.
drv_EFN_open == <<"socket", "probe", "socket">>
drv_EFN_close == <<"clear", "close">>
drv_EFN_start == <<"settings">> \o drv_EFN_open \o <<"clear">>
drv_EFN_init == drv_EFN_start \o <<"clear", "text">>
drv_EFN_quit == <<"free text", "clear", "goodbye">> \o drv_EFN_close

\* Noritake: the greeting comes after the buffers of the text display are there.
drv_GU311_start == <<"parport", "wires", "set", "clear">>
drv_Noritake_start == <<"settings">> \o drv_GU311_start
drv_Noritake_init == drv_Noritake_start \o <<"text">> \o Greet
drv_Noritake_quit == <<"clear", "goodbye", "close", "free text">>

\* Crystalfontz: three protocols, and displays that tell what they are.
drv_CF_start_1 == <<"clear", "set">>
drv_CF_start_2 == <<"timer", "clear", "set", "ask", "set", "blank lines">>
drv_CF_start_3 == <<"timer", "clear", "set">>
drv_CF_start(protocol) == <<"settings", "serial", "probe">>
                          \o <<drv_CF_start_1, drv_CF_start_2, drv_CF_start_3>>[protocol] \o <<"set">>
drv_CF_init(protocol) == drv_CF_start(protocol) \o Greet
                         \o <<"text", "icons", "bars", "gpio", "keypad", "plugins">>
drv_CF_quit == <<"free text", "gpio off", "keypad off", "clear", "goodbye", "close">>

\* HD44780 at a parallel port or at the I2C bus.
drv_HD_PP_load == <<"settings", "parport", "wires", "set">>
drv_HD_PP_stop == <<"set", "close">>
drv_HD_I2C_load == <<"settings", "i2c", "wires", "set">>
drv_HD_I2C_stop == <<"set", "close">>
drv_HD_start(i2c) == <<"settings">> \o (IF i2c THEN drv_HD_I2C_load ELSE drv_HD_PP_load)
                     \o <<"set", "clear", "set", "timer">> \o Greet
drv_HD_init(i2c) == drv_HD_start(i2c) \o <<"text", "icons", "bars", "gpio", "keypad", "plugins">>
drv_HD_quit(i2c) == <<"free text", "gpio off", "clear", "goodbye">>
                    \o (IF i2c THEN drv_HD_I2C_stop ELSE drv_HD_PP_stop)

\* No display at all.
drv_NULL_start == <<"settings">>
drv_NULL_init == drv_NULL_start \o <<"text", "bars">>
drv_NULL_quit == <<"free text">>

\* Teak LCM: the connection is made by a timer, and what the display has shown before is
\* cleared when it is connected.
drv_TeakLCM_open == <<"serial">>
drv_TeakLCM_start == <<"settings", "shadow">> \o drv_TeakLCM_open \o <<"ask", "timer">>
drv_TeakLCM_init == drv_TeakLCM_start \o <<"text">>
drv_TeakLCM_quit == <<"free text", "clear", "set", "close">>
=============================================================================
