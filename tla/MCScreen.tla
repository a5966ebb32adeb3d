------------------------------ MODULE MCScreen ------------------------------
(* From the configuration to the screen: the layout, its expressions and the *)
(* values they ask for, what text and graphic displays show, packets of a    *)
(* display, and the start and end of every driver.  One instance of them for *)
(* TLC: every behaviour is one of a single part, and the other parts rest.   *)
EXTENDS Layout, Evaluator, Samplers, TextDisplay, GraphicDisplay, Crystalfontz, DriverLife

CONSTANTS
    configuration, evaluator, textDisplay, graphicDisplay, sampler, crystalfontz, life
                     \* model values: the parts

VARIABLE part

\* Packets of an acknowledgement and of two keys, one of them with bytes in its check sum
\* that might be the head of another packet; and the command that a key sends.
MCKeyCommand == 1 :> 0 @@ 5 :> 14
MCCRC == (<<128, 1, 1>> :> <<113, 194>>) @@ (<<128, 1, 5>> :> <<85, 132>>)
         @@ (<<95, 0>> :> <<120, 95>>) @@ (<<78, 0>> :> <<49, 211>>)

\* Sections for layouts and rows, one of them with a dot; places with and without a layer
\* and in two spellings, and a timer.
MCRow == <<"row", 1, 0>>
MCCol == <<"col", 1, 0>>
MCSections == {<<LayoutOf(1)>>, <<MCRow>>, <<LayoutOf(1), MCRow>>}
MCPairs == {<<MCCol>>, <<<<"col", 1, 1>>>>, <<MCRow, MCCol>>,
            <<<<"layer:", 1, 0>>, MCRow, MCCol>>, <<<<"timer", 1, 0>>>>}
MCTypes == ("clock" :> "RC") @@ ("tick" :> "timer")
MCArguments == {Choice}

\* The tokens of expressions: operators of several levels, assignments, conditions, signs,
\* calls of functions with any and with one argument, strings, and garbage.
MCAlphabets == {{"1", "+", "*", "(", ")"}, {"x", "=", ";", "1", "+"}, {"0", "?", ":", "|", "x"},
                {"-", "!", "^", "2"}, {"f", "(", ")", ",", "1"}, {"0", "&", "x", "#"},
                {"''", "'a'", ".", "(", ")", "x"}, {"g", "(", ")", ",", "''", "#"}}

\* A source of each kind, and two keys, the smaller of which comes up later.
MCSources == {parse_proc_stat, parse_proc_apm, parse_xmms_info, my_i2c_sensors}
MCNames == {<<2, 1>>, <<1, 2>>}
MCLate == {<<1, 2>>}

\* Text displays of 2 x 3 cells of 3 x 2 pixels: an empty and a full segment are fixed, and
\* the few chars that can be defined serve icons and bars.
Segments == <<[val1 |-> 0, val2 |-> 0, ascii |-> 32], [val1 |-> 255, val2 |-> 255, ascii |-> 254]>>
TextDriver(chars, cost, invalidate, single) ==
    [CHARS |-> chars, CHAR0 |-> 0, ICONS |-> 1, GOTO_COST |-> cost, INVALIDATE |-> invalidate,
     XRES |-> 3, YRES |-> 2, Single_Segments |-> single, fixed |-> Segments]
TextAt(row, col, texts) == [row |-> row, col |-> col, texts |-> texts]
IconAt(row, col) == [row |-> row, col |-> col, maps |-> {"a", "b"}]
BarAt(row, col, dir, len, styled, vals) ==
    [row |-> row, col |-> col, dir |-> dir, style |-> styled, len |-> len, vals |-> vals]
Scene(texts, icons, bars) == [texts |-> texts, icons |-> icons, bars |-> bars]

\* One char for the segments of a bar, two with single segments for two bars and a text,
\* and two for bars with and without a style beside a text that reaches over the edge.
MCTextSetups == {
    TextDriver(2, 1, TRUE, FALSE)
        @@ Scene({}, {IconAt(0, 2)}, {BarAt(0, 0, "E", 2, FALSE, {1, 2, 6})}),
    TextDriver(3, 0, TRUE, TRUE)
        @@ Scene({TextAt(1, 1, {<<65, 66, 67>>, <<66, 66>>})}, {IconAt(1, 0)},
                   {BarAt(0, 1, "E", 3, FALSE, {1, 5, 9}), BarAt(0, 0, "N", 1, FALSE, {1, 2})}),
    TextDriver(3, 1, FALSE, TRUE)
        @@ Scene({TextAt(1, 2, {<<65, 66, 67>>})}, {IconAt(0, 2), IconAt(1, 1)},
                   {BarAt(0, 0, "S", 2, FALSE, {1, 3}), BarAt(0, 1, "E", 1, TRUE, {1, 3})})}

\* A graphic display of two pages of bytes, and widgets in two layers that overlap and
\* reach beyond the display.
d == "dark"
l == "light"
n == "none"
Look(kind, layer, row, col, height, breadth, bg) ==
    [kind |-> kind, layer |-> layer, row |-> row, col |-> col, height |-> height, width |-> breadth, bg |-> bg]
Text2x2 == Look("text", 0, 0, 0, 2, 2, n) @@ [looks |-> <<<<<<d, n>>, <<n, n>>>>, <<<<n, d>>, <<d, d>>>>>>]
Icon2x4 == Look("icon", 0, 1, 10, 2, 4, l) @@ [looks |-> <<<<<<d, n, d, d>>, <<n, d, d, d>>>>>>]
BarWest == Look("bar", 1, 1, 0, 2, 12, l) @@ [dir |-> "W", hollow |-> FALSE, vals |-> {<<1, 12>>, <<5, 4>>}]
BarNorth == Look("bar", 1, 0, 6, 4, 2, n) @@ [dir |-> "N", hollow |-> TRUE, vals |-> {<<0, 4>>, <<2, 3>>}]
MCGraphicDrivers ==
    [driver : {"T6963", "LPH7508", "GLCD2USB", "dpf", "EA232graphic", "MatrixOrbitalGX", "mdm166a",
               "picoLCDGraphic", "SamsungSPF"},
     BG_COL : {n},
     widgets : {{Text2x2, Icon2x4, BarWest, BarNorth}}]

-----------------------------------------------------------------------------
\* All drivers.
MCDrivers == AllDrivers

screenVars == <<part, cfgVars, evalVars, textVars, graphicVars, samplerVars, cfVars, lifeVars>>

ScreenInit ==
    /\ part \in {configuration, evaluator, textDisplay, graphicDisplay, sampler, crystalfontz, life}
    /\ CfgInit
    /\ EvalInit /\ (part # evaluator => alphabet = CHOOSE a \in Alphabets : TRUE)
    /\ TextInit /\ (part # textDisplay => drv.CHARS = 2)
    /\ GraphicInit /\ (part # graphicDisplay => graphic.driver = "dpf")
    /\ SamplerInit /\ (part # sampler => plugin = parse_proc_stat)
    /\ CfInit
    /\ LifeInit /\ (part # life => driver = "NULL" /\ quiet /\ lock = "none")

ScreenNext ==
    \/ /\ part = configuration /\ CfgNext
       /\ UNCHANGED <<part, evalVars, textVars, graphicVars, samplerVars, cfVars, lifeVars>>
    \/ /\ part = evaluator /\ EvalNext
       /\ UNCHANGED <<part, cfgVars, textVars, graphicVars, samplerVars, cfVars, lifeVars>>
    \/ /\ part = textDisplay /\ TextNext
       /\ UNCHANGED <<part, cfgVars, evalVars, graphicVars, samplerVars, cfVars, lifeVars>>
    \/ /\ part = graphicDisplay /\ GraphicNext
       /\ UNCHANGED <<part, cfgVars, evalVars, textVars, samplerVars, cfVars, lifeVars>>
    \/ /\ part = sampler /\ SamplerNext
       /\ UNCHANGED <<part, cfgVars, evalVars, textVars, graphicVars, cfVars, lifeVars>>
    \/ /\ part = crystalfontz /\ CfNext
       /\ UNCHANGED <<part, cfgVars, evalVars, textVars, graphicVars, samplerVars, lifeVars>>
    \/ /\ part = life /\ LifeNext
       /\ UNCHANGED <<part, cfgVars, evalVars, textVars, graphicVars, samplerVars, cfVars>>

ScreenSpec == ScreenInit /\ [][ScreenNext]_screenVars
=============================================================================
