-------------------------------- MODULE Layout --------------------------------
(***************************************************************************)
(* From the configuration to the widgets (cfg.c, layout.c, widget.c).  The *)
(* arguments -c and the lines of the file fill one table of entries, whose *)
(* keys are paths of sections joined by dots.  layout_init renames the     *)
(* old-style entries of the chosen layout, walks the list of its entries   *)
(* and adds a widget for each place that is named.                         *)
(*                                                                         *)
(* A key is a sequence of the words between its dots; a word is a tuple of *)
(* its lower-case name, what follows it (a number, a name), and how many   *)
(* zeros lead the number: "row1" and "row01" are two words.                *)
(***************************************************************************)
EXTENDS Integers, Sequences, SequencesExt, FiniteSets

CONSTANTS
    Layouts,      \* names of layouts (numbers)
    SectionNames, \* keys that open sections, "layout" and "layer" with a colon; a dot makes
                  \* several words of one
    PairKeys,     \* keys of the other lines
    WidgetType,   \* of the widgets' names: the type of the class, "none" without one
    ArgumentKeys, \* keys of arguments; they may hold no colon (validchars)
    LAYERS, MAX_WIDGETS,
    MaxLines, MaxArguments  \* bounds

\* The names that the code looks for; all others are like a key "layout" within a layout.
WordNames == {"col", "gpo", "keypad", "layer:", "layout", "layout:", "row", "timer", "x", "y"}

ASSUME LayoutAssumption ==
    /\ \A path \in SectionNames \cup PairKeys \cup ArgumentKeys :
           path \in Seq(WordNames \X Int \X Nat) /\ path # <<>>
    /\ <<<<"layout", 0, 0>>>> \notin PairKeys /\ Layouts \subseteq Int
    /\ MAX_WIDGETS \in Nat

VARIABLES
    phase,      \* "arguments", "reading", "refused", "read", "migrated", "running"
    Config,     \* entries: key -> val and lock
    section,    \* cfg_read: the section that is open, cut at its dots
    list,       \* layout_init: the entries of the layout that are still to be placed
    Widgets,    \* widgets in the order in which they were added; history: of which key
    byArgument, \* history: the last value that an argument gave a key
    byFile,     \* history: the last value that a line gave a path
    lines, arguments \* bounds: how many there were

cfgVars == <<phase, Config, section, list, Widgets, byArgument, byFile, lines, arguments>>

Word == WordNames \X Int \X Nat
Path == Seq(Word) \ {<<>>}
Under(word, key) == <<word>> \o key          \* a key behind a word
NoEntries == [path \in {} |-> 0]
\* entries with another one, or with another value of it
With(entries, path, entry) == [p \in DOMAIN entries \cup {path} |-> IF p = path THEN entry ELSE entries[p]]
Choice == <<<<"layout", 0, 0>>>>             \* the key Layout, which chooses one
Values == DOMAIN WidgetType
LayoutOf(name) == <<"layout:", name, 0>>      \* the section of a layout

CfgInit ==
    /\ phase = "arguments"
    /\ Config = NoEntries /\ section = <<>>
    /\ list = {} /\ Widgets = <<>>
    /\ byArgument = NoEntries /\ byFile = NoEntries
    /\ lines = 0 /\ arguments = 0

-----------------------------------------------------------------------------
(* The table. *)

\* Variant for mutation: the lock is not looked at.
AddedOver(key, val, lock) ==
    IF key \in DOMAIN Config THEN [Config EXCEPT ![key].val = val]
    ELSE With(Config, key, [val |-> val, lock |-> lock])

\* cfg_add: an entry that exists keeps its lock, and its value against a weaker one.
Added(key, val, lock) ==
    IF key \notin DOMAIN Config THEN With(Config, key, [val |-> val, lock |-> lock])
    ELSE IF Config[key].lock > lock THEN Config
    ELSE [Config EXCEPT ![key].val = val]

\* cfg_list: the entries of a section, without it.
Listed(entries, name) ==
    {Tail(key) : key \in {k \in DOMAIN entries : Len(k) > 1 /\ k[1] = name}}

\* cfg_cmd: key=value.
Argument(key, val) ==
    /\ phase = "arguments" /\ arguments < MaxArguments
    /\ Config' = Added(key, val, 1)
    /\ byArgument' = With(byArgument, key, val)
    /\ arguments' = arguments + 1
    /\ UNCHANGED <<phase, section, list, Widgets, byFile, lines>>

ArgumentsEnd ==
    /\ phase = "arguments"
    /\ phase' = "reading"
    /\ UNCHANGED <<Config, section, list, Widgets, byArgument, byFile, lines, arguments>>

-----------------------------------------------------------------------------
(* cfg_read, a line at a time. *)

ReadLine == phase = "reading" /\ lines < MaxLines /\ lines' = lines + 1

\* The program exits, and nothing of it is left.
Refuse ==
    /\ phase' = "refused" /\ Config' = NoEntries /\ section' = <<>>
    /\ byArgument' = NoEntries /\ byFile' = NoEntries /\ lines' = 0 /\ arguments' = 0
    /\ UNCHANGED <<list, Widgets>>

Open(key) ==
    /\ ReadLine
    /\ section' = section \o key
    /\ UNCHANGED <<phase, Config, list, Widgets, byArgument, byFile, arguments>>

\* The section is cut at its last dot.
Close ==
    /\ ReadLine /\ section # <<>>
    /\ section' = Front(section)
    /\ UNCHANGED <<phase, Config, list, Widgets, byArgument, byFile, arguments>>

Pair(key, val) ==
    /\ ReadLine
    /\ Config' = Added(section \o key, val, 0)
    /\ byFile' = With(byFile, section \o key, val)
    /\ UNCHANGED <<phase, section, list, Widgets, byArgument, arguments>>

\* A key or a section's name with characters that are not allowed, more behind '}', or a '}'
\* too many.
BadLine == phase = "reading" /\ lines < MaxLines /\ Refuse

\* The end of the file; main needs the name of a layout.
EndOfFile ==
    /\ phase = "reading"
    /\ IF section = <<>> /\ Choice \in DOMAIN Config
       THEN phase' = "read"
            /\ UNCHANGED <<Config, section, list, Widgets, byArgument, byFile, lines, arguments>>
       ELSE Refuse

-----------------------------------------------------------------------------
(* The chosen layout. *)

Chosen == LayoutOf(Config[Choice].val)
OldStyle(key) == Len(key) = 2 /\ key[1][1] = "row" /\ key[2][1] = "col"
NewStyle(key) == Under(<<"layer:", 1, 0>>, key)

\* cfg_rename for the entries of the old style; one whose new name exists stays as it is.
Renamed(name) ==
    LET old == {key \in Listed(Config, name) : OldStyle(key) /\ Under(name, NewStyle(key)) \notin DOMAIN Config}
        from == {Under(name, key) : key \in old}
        to == {Under(name, NewStyle(key)) : key \in old}
    IN  [key \in (DOMAIN Config \ from) \cup to |->
            IF key \in to THEN Config[Under(name, Tail(Tail(key)))] ELSE Config[key]]

\* layout_migrate; layout_init then takes the list of the entries.
Migrate ==
    /\ phase = "read"
    /\ phase' = "migrated"
    /\ Config' = Renamed(Chosen)
    /\ list' = Listed(Config', Chosen)
    /\ UNCHANGED <<section, Widgets, byArgument, byFile, lines, arguments>>

\* What sscanf makes of a key: the place that it names, or no place at all.  The zeros
\* that lead a number are lost.
PlaceOf(key) ==
    IF Len(key) = 3 /\ key[1][1] = "layer:" /\ key[1][2] \in 0..LAYERS - 1
       /\ <<key[2][1], key[3][1]>> \in {<<"row", "col">>, <<"x", "y">>}
    THEN {[type |-> IF key[2][1] = "row" THEN "RC" ELSE "XY",
           layer |-> key[1][2], row |-> key[2][2] - 1, col |-> key[3][2] - 1]}
    ELSE IF Len(key) = 1 /\ key[1][1] \in {"gpo", "timer", "keypad"}
    THEN {[type |-> key[1][1], layer |-> 0, row |-> key[1][2] - 1, col |-> 0]}
    ELSE {}

\* widget_add: a class of the right type, room for the widget, and the first of the same
\* name for its parent.
WithWidget(key, name, place) ==
    IF WidgetType[name] # place.type \/ Len(Widgets) >= MAX_WIDGETS THEN Widgets
    ELSE LET same == {i \in DOMAIN Widgets : Widgets[i].name = name}
         IN  Append(Widgets, [key |-> key, place |-> place, name |-> name,
                              parent |-> IF same = {} THEN 0 ELSE CHOOSE i \in same : \A j \in same : i <= j])

\* The table, and with it the list, is sorted by key.
Order == <<"col", "gpo", "keypad", "layer:", "layout", "layout:", "row", "timer", "x", "y">>
WordCode(word) == 10000 * (CHOOSE i \in DOMAIN Order : Order[i] = word[1]) - 100 * word[3] + word[2]
Sooner(a, b) ==
    \/ a # b /\ IsPrefix(a, b)
    \/ \E i \in DOMAIN a \cap DOMAIN b : /\ \A j \in 1..i - 1 : a[j] = b[j]
                                         /\ WordCode(a[i]) < WordCode(b[i])
Place ==
    /\ phase = "migrated"
    /\ \E key \in {k \in list : \A other \in list : ~Sooner(other, k)} :
           /\ list' = list \ {key}
           /\ Widgets' = IF PlaceOf(key) = {} THEN Widgets
                         ELSE WithWidget(key, Config[Under(Chosen, key)].val, CHOOSE place \in PlaceOf(key) : TRUE)
    /\ UNCHANGED <<phase, Config, section, byArgument, byFile, lines, arguments>>

Run ==
    /\ phase = "migrated" /\ list = {}
    /\ phase' = "running"
    /\ UNCHANGED <<Config, section, list, Widgets, byArgument, byFile, lines, arguments>>

CfgNext ==
    \/ \E key \in ArgumentKeys, val \in Layouts : Argument(key, val)
    \/ ArgumentsEnd
    \/ \E key \in SectionNames : Open(key)
    \/ Close
    \/ \E key \in PairKeys, val \in Values : Pair(key, val)
    \/ \E val \in Layouts : Pair(Choice, val)
    \/ BadLine \/ EndOfFile
    \/ Migrate \/ Place \/ Run

CfgSpec == CfgInit /\ [][CfgNext]_cfgVars

-----------------------------------------------------------------------------
(* Properties. *)

\* What was said of a path: an argument is stronger than a line.
Said == [path \in DOMAIN byArgument \cup DOMAIN byFile |->
            IF path \in DOMAIN byArgument THEN byArgument[path] ELSE byFile[path]]

\* The keys that were said of a layout, and what they mean: those of the old style stand for
\* the new style, unless that was said as well.
SaidOf(layout) == {Tail(path) : path \in {p \in DOMAIN Said : p[1] = layout}}
KeysMeant(layout) ==
    LET keys == SaidOf(layout)
        old == {key \in keys : OldStyle(key)}
    IN  {<<key, Said[Under(layout, key)]>> : key \in keys \ old}
        \cup {<<NewStyle(key), Said[Under(layout, key)]>> : key \in {k \in old : NewStyle(k) \notin keys}}

\* Widgets at the places that are meant, whose class is of the right type; those that are there.
AskedBy(keys) == UNION {{[key |-> m[1], place |-> place, name |-> m[2]] : place \in PlaceOf(m[1])} : m \in keys}
WidgetsMeant == AskedBy(KeysMeant(LayoutOf(Said[Choice])))
Fitting(widgets) == {w \in widgets : WidgetType[w.name] = w.place.type}
Placed == {[key |-> w.key, place |-> w.place, name |-> w.name] : w \in ToSet(Widgets)}

\* When the layout is up, there is one widget for each key that names a place in the
\* layout that was chosen last, on the command line if it was chosen there, and no other:
\* of several lines for a key the last one counts, an argument more than a line, and a key
\* without a layer is the one of layer 1 unless that was said itself.  Two keys that differ
\* in the spelling of a number have a widget each, though they name one place.
LayoutAsWritten ==
    phase = "running" =>
        LET fitting == Fitting(WidgetsMeant)
        IN  /\ Placed \subseteq fitting
            /\ Cardinality(Placed) = IF Cardinality(fitting) < MAX_WIDGETS THEN Cardinality(fitting) ELSE MAX_WIDGETS
            /\ Len(Widgets) = Cardinality(Placed)
=============================================================================
