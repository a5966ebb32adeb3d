----------------------------- MODULE Layout_proofs -----------------------------
(***************************************************************************)
(* That the widgets are those that the arguments and the file name, for    *)
(* any number of arguments and lines, sections of any depth, and any keys. *)
(***************************************************************************)
EXTENDS Layout, SequenceTheorems, FiniteSetTheorems, TLAPS

-----------------------------------------------------------------------------
(* Paths. *)

\* A path is its first word and the rest.
LEMMA HeadAndRest ==
    ASSUME NEW path \in Path
    PROVE  /\ Len(path) \in Nat \ {0} /\ path[1] \in Word
           /\ Tail(path) \in Seq(Word) /\ Len(Tail(path)) = Len(path) - 1
           /\ Under(path[1], Tail(path)) = path
<1>1. path \in Seq(Word) /\ path # <<>>
  BY DEF Path
<1>2. Len(path) \in Nat \ {0} /\ path[1] \in Word
  BY <1>1, EmptySeq, ElementOfSeq
<1>3. Tail(path) \in Seq(Word) /\ Len(Tail(path)) = Len(path) - 1
  BY <1>1, HeadTailProperties
<1>4. <<path[1]>> \o Tail(path) = path
  <2>1. <<path[1]>> \in Seq(Word) /\ Len(<<path[1]>>) = 1
    BY <1>2
  <2> DEFINE whole == <<path[1]>> \o Tail(path)
  <2>2. /\ whole \in Seq(Word) /\ Len(whole) = 1 + Len(Tail(path))
        /\ \A i \in 1..1 + Len(Tail(path)) : whole[i] = IF i <= 1 THEN <<path[1]>>[i] ELSE Tail(path)[i - 1]
    BY <1>3, <2>1, ConcatProperties
  <2>3. \A i \in 1..Len(Tail(path)) : Tail(path)[i] = path[i + 1]
    BY <1>1, HeadTailProperties
  <2> HIDE DEF whole
  <2>4. Len(whole) = Len(path)
    BY <1>2, <1>3, <2>2
  <2>5. ASSUME NEW i \in 1..Len(whole) PROVE whole[i] = path[i]
    <3>1. CASE i = 1
      BY <2>2, <2>5, <3>1, <1>2, <1>3
    <3>2. CASE i # 1
      <4>1. i - 1 \in 1..Len(Tail(path)) /\ i \in 1..1 + Len(Tail(path)) /\ ~(i <= 1) /\ (i - 1) + 1 = i
        BY <2>4, <3>2, <1>2, <1>3
      <4> QED BY <2>2, <2>3, <4>1
    <3> QED BY <3>1, <3>2
  <2> QED BY <1>1, <2>2, <2>4, <2>5, SeqEqual DEF whole
<1> QED BY <1>2, <1>3, <1>4 DEF Under

\* A word before a path, and the path behind it.
LEMMA WordBefore ==
    ASSUME NEW word \in Word, NEW key \in Seq(Word)
    PROVE  /\ Under(word, key) \in Path
           /\ Len(Under(word, key)) = Len(key) + 1
           /\ Under(word, key)[1] = word
           /\ Tail(Under(word, key)) = key
<1> DEFINE path == <<word>> \o key
<1>1. <<word>> \in Seq(Word) /\ Len(<<word>>) = 1
  OBVIOUS
<1>2. /\ path \in Seq(Word) /\ Len(path) = 1 + Len(key)
      /\ \A i \in 1..1 + Len(key) : path[i] = IF i <= 1 THEN <<word>>[i] ELSE key[i - 1]
  BY <1>1, ConcatProperties
<1>3. Len(key) \in Nat
  BY LenProperties
<1> HIDE DEF path
<1>4. path # <<>> /\ Len(path) = Len(key) + 1 /\ path[1] = word
  BY <1>2, <1>3
<1>5. /\ Tail(path) \in Seq(Word) /\ Len(Tail(path)) = Len(path) - 1
      /\ \A i \in 1..Len(Tail(path)) : Tail(path)[i] = path[i + 1]
  BY <1>2, <1>4, HeadTailProperties
<1>6. Tail(path) = key
  <2>1. Len(Tail(path)) = Len(key)
    BY <1>3, <1>4, <1>5
  <2>2. \A i \in 1..Len(Tail(path)) : Tail(path)[i] = key[i]
    <3> TAKE i \in 1..Len(Tail(path))
    <3>1. i + 1 \in 1..1 + Len(key) /\ ~(i + 1 <= 1) /\ (i + 1) - 1 = i
      BY <1>3, <2>1
    <3> QED BY <1>2, <1>5, <3>1
  <2> QED BY <1>5, <2>1, <2>2, SeqEqual
<1> QED BY <1>2, <1>4, <1>6 DEF path, Path, Under

LEMMA LayerWord == <<"layer:", 1, 0>> \in Word
BY DEF Word, WordNames

\* A key of the new style is the one of the old style behind a layer.
LEMMA LayerBefore ==
    ASSUME NEW word \in Word, NEW key \in Seq(Word)
    PROVE  /\ NewStyle(key) \in Path /\ Len(NewStyle(key)) = Len(key) + 1
           /\ Under(word, NewStyle(key)) \in Path
           /\ Tail(Under(word, NewStyle(key))) = NewStyle(key)
           /\ Tail(NewStyle(key)) = key
<1>1. <<"layer:", 1, 0>> \in Word
  BY LayerWord
<1>2. NewStyle(key) \in Path /\ Len(NewStyle(key)) = Len(key) + 1 /\ Tail(NewStyle(key)) = key
  BY <1>1, WordBefore DEF NewStyle
<1>3. NewStyle(key) \in Seq(Word)
  BY <1>2 DEF Path
<1> QED BY <1>2, <1>3, WordBefore

\* A key names one place at most, and none if it is of the old style.
LEMMA OnePlace ==
    ASSUME NEW key \in Seq(Word), NEW place \in PlaceOf(key)
    PROVE  PlaceOf(key) = {place} /\ key # <<>> /\ ~OldStyle(key)
<1>1. Len(key) \in {1, 3}
  BY DEF PlaceOf
<1>2. PlaceOf(key) = {place}
  <2>1. \E only : PlaceOf(key) = {only}
    <3>1. CASE Len(key) = 3
      BY <3>1 DEF PlaceOf
    <3>2. CASE Len(key) = 1
      BY <3>2 DEF PlaceOf
    <3> QED BY <1>1, <3>1, <3>2
  <2> QED BY <2>1
<1> QED BY <1>1, <1>2, EmptySeq DEF OldStyle

\* The keys of a section are those with an entry behind its word.
LEMMA ListedKeys ==
    ASSUME NEW entries, DOMAIN entries \subseteq Path, NEW word \in Word, NEW key
    PROVE  key \in Listed(entries, word) <=> key \in Path /\ Under(word, key) \in DOMAIN entries
<1>1. ASSUME key \in Listed(entries, word) PROVE key \in Path /\ Under(word, key) \in DOMAIN entries
  <2>1. PICK k \in DOMAIN entries : Len(k) > 1 /\ k[1] = word /\ key = Tail(k)
    BY <1>1 DEF Listed
  <2>2. Len(k) \in Nat /\ key \in Seq(Word) /\ Len(key) = Len(k) - 1 /\ Under(word, key) = k
    BY <2>1, HeadAndRest
  <2>5. Len(key) # 0
    BY <2>1, <2>2
  <2>3. key # <<>>
    BY <2>5
  <2>4. key \in Path
    BY <2>2, <2>3 DEF Path
  <2> QED BY <2>1, <2>2, <2>4
<1>2. ASSUME key \in Path, Under(word, key) \in DOMAIN entries PROVE key \in Listed(entries, word)
  <2>1. key \in Seq(Word) /\ key # <<>>
    BY <1>2 DEF Path
  <2>2. Len(key) \in Nat \ {0}
    BY <2>1, EmptySeq
  <2>3. Len(Under(word, key)) = Len(key) + 1 /\ Under(word, key)[1] = word /\ Tail(Under(word, key)) = key
    BY <2>1, WordBefore
  <2>4. Len(Under(word, key)) > 1
    BY <2>2, <2>3
  <2> QED BY <1>2, <2>3, <2>4 DEF Listed
<1> QED BY <1>1, <1>2

-----------------------------------------------------------------------------
(* The invariant. *)

\* What the entries of a section ask for at the places that keys of it name.
Wants(entries, word, keys) ==
    UNION {{[key |-> key, place |-> place, name |-> entries[Under(word, key)].val] : place \in PlaceOf(key)} : key \in keys}

CfgTyped ==
    /\ phase \in {"arguments", "reading", "refused", "read", "migrated", "running"}
    /\ DOMAIN byArgument \subseteq Path /\ DOMAIN byFile \subseteq Path
    /\ Config \in [DOMAIN Config -> [val : Values \cup Layouts, lock : {0, 1}]]
    /\ section \in Seq(Word)
    /\ Widgets \in Seq(ToSet(Widgets))

\* What names a layout.
ChoiceNamed == Choice \in DOMAIN Said => Said[Choice] \in Layouts

\* Until the layout is migrated, the entries are what was said, with the lock of an argument.
EntriesSaid ==
    phase \in {"arguments", "reading", "refused", "read"} =>
        /\ DOMAIN Config = DOMAIN Said
        /\ \A path \in DOMAIN Config : /\ Config[path].val = Said[path]
                                       /\ Config[path].lock = 1 <=> path \in DOMAIN byArgument
        /\ phase = "arguments" => DOMAIN byFile = {}
        /\ phase = "read" => Choice \in DOMAIN Said
        /\ list = {} /\ Widgets = <<>>

\* Then the entries of the layout ask for the widgets that were meant, and those of the list
\* that are done have theirs, as far as there is room.
Done == Fitting(Wants(Config, Chosen, Listed(Config, Chosen) \ list))
WidgetsKept ==
    phase \in {"migrated", "running"} =>
        /\ DOMAIN Config \subseteq Path /\ Chosen \in Word
        /\ Wants(Config, Chosen, Listed(Config, Chosen)) = WidgetsMeant
        /\ list \subseteq Listed(Config, Chosen)
        /\ phase = "running" => list = {}
        /\ Placed \subseteq Done /\ IsFiniteSet(Done)
        /\ Len(Widgets) = Cardinality(Placed)
        /\ Cardinality(Placed) = IF Cardinality(Done) < MAX_WIDGETS THEN Cardinality(Done) ELSE MAX_WIDGETS

CfgInv == CfgTyped /\ ChoiceNamed /\ EntriesSaid /\ WidgetsKept

-----------------------------------------------------------------------------
(* The migration keeps what was meant. *)

\* The keys that were said of a layout.
LEMMA KeysSaid ==
    ASSUME DOMAIN Said \subseteq Path, NEW layout \in Word, NEW key
    PROVE  key \in SaidOf(layout) <=> key \in Seq(Word) /\ Under(layout, key) \in DOMAIN Said
<1>1. ASSUME key \in SaidOf(layout) PROVE key \in Seq(Word) /\ Under(layout, key) \in DOMAIN Said
  <2>1. PICK path \in DOMAIN Said : path[1] = layout /\ key = Tail(path)
    BY <1>1 DEF SaidOf
  <2>2. path \in Path
    BY <2>1
  <2>3. key \in Seq(Word) /\ Under(layout, key) = path
    BY <2>1, <2>2, HeadAndRest
  <2> QED BY <2>1, <2>3
<1>2. ASSUME key \in Seq(Word), Under(layout, key) \in DOMAIN Said PROVE key \in SaidOf(layout)
  <2>1. Under(layout, key)[1] = layout /\ Tail(Under(layout, key)) = key
    BY <1>2, WordBefore
  <2> QED BY <1>2, <2>1 DEF SaidOf
<1> QED BY <1>1, <1>2

\* What is asked for at a place, by a set of keys that mean something and by entries.
LEMMA AskedElement ==
    ASSUME NEW keys, NEW w
    PROVE  w \in AskedBy(keys) <=> \E m \in keys : \E place \in PlaceOf(m[1]) : w = [key |-> m[1], place |-> place, name |-> m[2]]
BY DEF AskedBy

LEMMA WantsElement ==
    ASSUME NEW entries, NEW word, NEW keys, NEW w
    PROVE  w \in Wants(entries, word, keys) <=>
              \E key \in keys : \E place \in PlaceOf(key) :
                  w = [key |-> key, place |-> place, name |-> entries[Under(word, key)].val]
BY DEF Wants

\* The entries that are renamed, and those that stay.
LEMMA RenamedEntries ==
    ASSUME DOMAIN Config \subseteq Path, NEW layout \in Word
    PROVE  LET old == {key \in Path : OldStyle(key) /\ Under(layout, key) \in DOMAIN Config
                                      /\ Under(layout, NewStyle(key)) \notin DOMAIN Config}
           IN  /\ DOMAIN Renamed(layout) \subseteq Path
               /\ \A path : path \in DOMAIN Renamed(layout) <=>
                      \/ path \in DOMAIN Config /\ \A key \in old : path # Under(layout, key)
                      \/ \E key \in old : path = Under(layout, NewStyle(key))
               /\ \A key \in old : Renamed(layout)[Under(layout, NewStyle(key))] = Config[Under(layout, key)]
               /\ \A path \in DOMAIN Config \cap DOMAIN Renamed(layout) : Renamed(layout)[path] = Config[path]
<1> DEFINE old == {key \in Path : OldStyle(key) /\ Under(layout, key) \in DOMAIN Config
                                  /\ Under(layout, NewStyle(key)) \notin DOMAIN Config}
           from == {Under(layout, key) : key \in old}
           to == {Under(layout, NewStyle(key)) : key \in old}
<1>1. old = {key \in Listed(Config, layout) : OldStyle(key) /\ Under(layout, NewStyle(key)) \notin DOMAIN Config}
  BY ListedKeys
<1>2. Renamed(layout) = [path \in (DOMAIN Config \ from) \cup to |->
                            IF path \in to THEN Config[Under(layout, Tail(Tail(path)))] ELSE Config[path]]
  BY <1>1 DEF Renamed
<1>3. ASSUME NEW key \in old
      PROVE  /\ Under(layout, NewStyle(key)) \in Path /\ Under(layout, NewStyle(key)) \notin DOMAIN Config
             /\ Tail(Tail(Under(layout, NewStyle(key)))) = key
  <2>1. key \in Seq(Word)
    BY DEF Path
  <2> QED BY <2>1, LayerBefore
<1> HIDE DEF old
<1>4. /\ DOMAIN Renamed(layout) = (DOMAIN Config \ from) \cup to
      /\ \A path \in DOMAIN Renamed(layout) :
             Renamed(layout)[path] = IF path \in to THEN Config[Under(layout, Tail(Tail(path)))] ELSE Config[path]
  BY <1>2
<1>5. \A key \in old : Renamed(layout)[Under(layout, NewStyle(key))] = Config[Under(layout, key)]
  BY <1>3, <1>4
<1>6. \A path \in DOMAIN Config \cap DOMAIN Renamed(layout) : Renamed(layout)[path] = Config[path]
  BY <1>3, <1>4
<1>7. DOMAIN Renamed(layout) \subseteq Path
  BY <1>3, <1>4
<1> QED BY <1>4, <1>5, <1>6, <1>7 DEF old

\* The entries of a layout ask for the widgets that were meant, once they are renamed.
LEMMA RenamedMeans ==
    ASSUME DOMAIN Config \subseteq Path, DOMAIN Config = DOMAIN Said,
           \A path \in DOMAIN Config : Config[path].val = Said[path],
           NEW layout \in Word
    PROVE  Wants(Renamed(layout), layout, Listed(Renamed(layout), layout)) = AskedBy(KeysMeant(layout))
<1> DEFINE old == {key \in Path : OldStyle(key) /\ Under(layout, key) \in DOMAIN Config
                                  /\ Under(layout, NewStyle(key)) \notin DOMAIN Config}
           new == Renamed(layout)
           meant == {<<key, Said[Under(layout, key)]>> : key \in {k \in SaidOf(layout) : ~OldStyle(k)}}
           moved == {<<NewStyle(key), Said[Under(layout, key)]>> :
                        key \in {k \in SaidOf(layout) : OldStyle(k) /\ NewStyle(k) \notin SaidOf(layout)}}
<1>1. KeysMeant(layout) = meant \cup moved
  BY DEF KeysMeant
<1>2. /\ DOMAIN new \subseteq Path
      /\ \A path : path \in DOMAIN new <=> \/ path \in DOMAIN Config /\ \A key \in old : path # Under(layout, key)
                                           \/ \E key \in old : path = Under(layout, NewStyle(key))
      /\ \A key \in old : new[Under(layout, NewStyle(key))] = Config[Under(layout, key)]
      /\ \A path \in DOMAIN Config \cap DOMAIN new : new[path] = Config[path]
  BY RenamedEntries
<1>3. \A key : key \in Listed(new, layout) <=> key \in Path /\ Under(layout, key) \in DOMAIN new
  BY <1>2, ListedKeys
<1>4. \A key : key \in SaidOf(layout) <=> key \in Seq(Word) /\ Under(layout, key) \in DOMAIN Config
  BY KeysSaid
<1>5. \A one, other \in Seq(Word) : Under(layout, one) = Under(layout, other) => one = other
  <2> SUFFICES ASSUME NEW one \in Seq(Word), NEW other \in Seq(Word), Under(layout, one) = Under(layout, other)
               PROVE  one = other
    OBVIOUS
  <2>1. Tail(Under(layout, one)) = one
    BY WordBefore
  <2>2. Tail(Under(layout, other)) = other
    BY WordBefore
  <2> QED BY <2>1, <2>2
<1>6. \A key \in Seq(Word) : PlaceOf(key) # {} => key # <<>> /\ ~OldStyle(key)
  BY OnePlace
<1>7. Path \subseteq Seq(Word)
  BY DEF Path
<1>8. \A key \in old : /\ key \in SaidOf(layout) /\ OldStyle(key) /\ NewStyle(key) \notin SaidOf(layout)
                       /\ Said[Under(layout, key)] = Config[Under(layout, key)].val
  BY <1>4, <1>7
<1>9. \A key \in SaidOf(layout) : OldStyle(key) /\ NewStyle(key) \notin SaidOf(layout) => key \in old
  <2> TAKE key \in SaidOf(layout)
  <2> HAVE OldStyle(key) /\ NewStyle(key) \notin SaidOf(layout)
  <2>1. key \in Seq(Word) /\ Under(layout, key) \in DOMAIN Config
    BY <1>4
  <2>2. NewStyle(key) \in Seq(Word)
    BY <2>1, LayerBefore DEF Path
  <2>3. Under(layout, NewStyle(key)) \notin DOMAIN Config
    BY <1>4, <2>2
  <2>4. Len(key) = 2
    BY DEF OldStyle
  <2>5. Len(key) # 0
    BY <2>4
  <2>6. key \in Path
    BY <2>1, <2>5 DEF Path
  <2> QED BY <2>1, <2>3, <2>6
<1> HIDE DEF old, new, meant, moved
<1>10. ASSUME NEW w, w \in Wants(new, layout, Listed(new, layout)) PROVE w \in AskedBy(KeysMeant(layout))
  <2>0. PICK key \in Listed(new, layout) :
            \E place \in PlaceOf(key) : w = [key |-> key, place |-> place, name |-> new[Under(layout, key)].val]
    BY <1>10, WantsElement
  <2>1. PICK place \in PlaceOf(key) : w = [key |-> key, place |-> place, name |-> new[Under(layout, key)].val]
    BY <2>0
  <2>2. key \in Seq(Word) /\ Under(layout, key) \in DOMAIN new /\ ~OldStyle(key)
    BY <1>3, <1>6, <1>7, <2>1
  <2>3. CASE \E o \in old : Under(layout, key) = Under(layout, NewStyle(o))
    <3>1. PICK o \in old : Under(layout, key) = Under(layout, NewStyle(o))
      BY <2>3
    <3>2. NewStyle(o) \in Seq(Word) /\ o \in SaidOf(layout)
      BY <1>4, <1>7, <1>8, LayerBefore DEF Path
    <3>3. key = NewStyle(o)
      BY <1>5, <2>2, <3>1, <3>2
    <3>4. new[Under(layout, key)].val = Said[Under(layout, o)]
      BY <1>2, <1>8, <3>1
    <3>5. <<key, Said[Under(layout, o)]>> \in moved
      BY <1>8, <3>3 DEF moved
    <3> DEFINE meaning == <<key, Said[Under(layout, o)]>>
    <3>6. meaning \in KeysMeant(layout) /\ place \in PlaceOf(meaning[1]) /\ w = [key |-> meaning[1], place |-> place, name |-> meaning[2]]
      BY <1>1, <2>1, <3>4, <3>5
    <3> QED BY <3>6, AskedElement
  <2>4. CASE \A o \in old : Under(layout, key) # Under(layout, NewStyle(o))
    <3>1. Under(layout, key) \in DOMAIN Config
      BY <1>2, <2>2, <2>4
    <3>2. new[Under(layout, key)].val = Said[Under(layout, key)] /\ key \in SaidOf(layout)
      BY <1>2, <1>4, <2>2, <3>1
    <3>3. <<key, Said[Under(layout, key)]>> \in meant
      BY <2>2, <3>2 DEF meant
    <3> DEFINE meaning == <<key, Said[Under(layout, key)]>>
    <3>4. meaning \in KeysMeant(layout) /\ place \in PlaceOf(meaning[1]) /\ w = [key |-> meaning[1], place |-> place, name |-> meaning[2]]
      BY <1>1, <2>1, <3>2, <3>3
    <3> QED BY <3>4, AskedElement
  <2> QED BY <2>3, <2>4
<1>11. ASSUME NEW w, w \in AskedBy(KeysMeant(layout)) PROVE w \in Wants(new, layout, Listed(new, layout))
  <2>0. PICK m \in KeysMeant(layout) : \E place \in PlaceOf(m[1]) : w = [key |-> m[1], place |-> place, name |-> m[2]]
    BY <1>11, AskedElement
  <2>1. PICK place \in PlaceOf(m[1]) : w = [key |-> m[1], place |-> place, name |-> m[2]]
    BY <2>0
  <2>2. CASE m \in meant
    <3>1. PICK key \in SaidOf(layout) : ~OldStyle(key) /\ m = <<key, Said[Under(layout, key)]>>
      BY <2>2 DEF meant
    <3>2. key \in Seq(Word) /\ Under(layout, key) \in DOMAIN Config /\ m[1] = key /\ m[2] = Said[Under(layout, key)]
      BY <1>4, <3>1
    <3>3. key \in Path
      BY <1>6, <2>1, <3>2 DEF Path
    <3>4. \A o \in old : Under(layout, key) # Under(layout, o)
      <4> TAKE o \in old
      <4>1. o \in Seq(Word) /\ OldStyle(o)
        BY <1>4, <1>8
      <4> QED BY <1>5, <3>1, <3>2, <4>1
    <3>5. Under(layout, key) \in DOMAIN new
      BY <1>2, <3>2, <3>4
    <3>6. new[Under(layout, key)].val = m[2] /\ key \in Listed(new, layout)
      BY <1>2, <1>3, <3>2, <3>3, <3>5
    <3> QED BY <2>1, <3>2, <3>6, WantsElement
  <2>3. CASE m \in moved
    <3>1. PICK o \in SaidOf(layout) : /\ OldStyle(o) /\ NewStyle(o) \notin SaidOf(layout)
                                      /\ m = <<NewStyle(o), Said[Under(layout, o)]>>
      BY <2>3 DEF moved
    <3>2. o \in old /\ o \in Seq(Word) /\ m[1] = NewStyle(o) /\ m[2] = Said[Under(layout, o)]
      BY <1>4, <1>9, <3>1
    <3>3. NewStyle(o) \in Path /\ Under(layout, NewStyle(o)) \in DOMAIN new
      BY <1>2, <3>2, LayerBefore
    <3>4. new[Under(layout, NewStyle(o))].val = m[2] /\ NewStyle(o) \in Listed(new, layout)
      BY <1>2, <1>3, <1>8, <3>2, <3>3
    <3> QED BY <2>1, <3>2, <3>4, WantsElement
  <2> QED BY <1>1, <2>1, <2>2, <2>3
<1> QED BY <1>10, <1>11 DEF new

-----------------------------------------------------------------------------
(* Sequences of widgets. *)

\* One more element.
LEMMA OneMore ==
    ASSUME NEW s, s \in Seq(ToSet(s)), NEW e
    PROVE  LET t == Append(s, e)
           IN  t \in Seq(ToSet(t)) /\ ToSet(t) = ToSet(s) \cup {e} /\ Len(t) = Len(s) + 1 /\ Len(s) \in Nat
<1> DEFINE S == ToSet(s) \cup {e}
           t == Append(s, e)
<1>1. s \in Seq(S)
  <2>1. s \in [1..Len(s) -> ToSet(s)] /\ Len(s) \in Nat
    BY LenProperties
  <2>2. s \in [1..Len(s) -> S]
    BY <2>1
  <2> QED BY <2>1, <2>2, IsASeq
<1> HIDE DEF S
<1>2. /\ t \in Seq(S) /\ Len(t) = Len(s) + 1 /\ Len(s) \in Nat
      /\ \A i \in 1..Len(s) : t[i] = s[i]
      /\ t[Len(s) + 1] = e
  <2>1. e \in S
    BY DEF S
  <2> QED BY <1>1, <2>1, AppendProperties, LenProperties
<1> HIDE DEF t
<1>3. DOMAIN t = 1..Len(s) + 1 /\ DOMAIN s = 1..Len(s)
  BY <1>1, <1>2, LenProperties
<1>4. ToSet(t) = S
  <2>1. \A i \in DOMAIN t : t[i] \in S
    BY <1>2, <1>3, ElementOfSeq
  <2>2. \A i \in DOMAIN s : \E j \in DOMAIN t : s[i] = t[j]
    BY <1>2, <1>3
  <2>3. Len(s) + 1 \in DOMAIN t
    BY <1>2, <1>3
  <2>4. ToSet(t) \subseteq S
    BY <2>1 DEF ToSet
  <2>5. ToSet(s) \subseteq ToSet(t)
    BY <2>2 DEF ToSet
  <2>6. e \in ToSet(t)
    BY <1>2, <2>3 DEF ToSet
  <2> QED BY <2>4, <2>5, <2>6 DEF S
<1> QED BY <1>2, <1>4 DEF t, S

\* What is placed once there is one more widget.
LEMMA OneMorePlaced ==
    ASSUME CfgTyped, NEW record, Widgets' = Append(Widgets, record)
    PROVE  /\ Widgets' \in Seq(ToSet(Widgets')) /\ Len(Widgets') = Len(Widgets) + 1 /\ Len(Widgets) \in Nat
           /\ Placed' = Placed \cup {[key |-> record.key, place |-> record.place, name |-> record.name]}
<1>1. /\ Widgets' \in Seq(ToSet(Widgets')) /\ Len(Widgets') = Len(Widgets) + 1 /\ Len(Widgets) \in Nat
      /\ ToSet(Widgets') = ToSet(Widgets) \cup {record}
  BY OneMore DEF CfgTyped
<1> QED BY <1>1 DEF Placed

-----------------------------------------------------------------------------
(* The table of entries while it is filled. *)

\* Said after one more argument, and after one more line.
LEMMA SaidMore ==
    ASSUME NEW path, NEW val
    PROVE  /\ byArgument' = With(byArgument, path, val) /\ byFile' = byFile =>
                  /\ DOMAIN Said' = DOMAIN Said \cup {path} /\ DOMAIN byArgument' = DOMAIN byArgument \cup {path}
                  /\ \A p \in DOMAIN Said' : Said'[p] = IF p = path THEN val ELSE Said[p]
           /\ byFile' = With(byFile, path, val) /\ byArgument' = byArgument =>
                  /\ DOMAIN Said' = DOMAIN Said \cup {path} /\ DOMAIN byFile' = DOMAIN byFile \cup {path}
                  /\ \A p \in DOMAIN Said' :
                         Said'[p] = IF p = path /\ path \notin DOMAIN byArgument THEN val ELSE Said[p]
BY DEF Said, With

\* The entries after one more.
HasAdded(table, path, val, lock) ==
    /\ DOMAIN table = DOMAIN Config \cup {path}
    /\ table \in [DOMAIN table -> [val : Values \cup Layouts, lock : {0, 1}]]
    /\ \A p \in DOMAIN Config \ {path} : table[p] = Config[p]
    /\ table[path].lock = IF path \in DOMAIN Config THEN Config[path].lock ELSE lock
    /\ table[path].val = IF path \in DOMAIN Config /\ Config[path].lock > lock THEN Config[path].val ELSE val

LEMMA AddedEntry ==
    ASSUME CfgTyped, NEW path \in Path, NEW val \in Values \cup Layouts, NEW lock \in {0, 1},
           NEW table, table = Added(path, val, lock)
    PROVE  HasAdded(table, path, val, lock)
<1> USE DEF CfgTyped, HasAdded
<1>1. CASE path \notin DOMAIN Config
  <2>1. table = [p \in DOMAIN Config \cup {path} |-> IF p = path THEN [val |-> val, lock |-> lock] ELSE Config[p]]
    BY <1>1 DEF Added, With
  <2> QED BY <1>1, <2>1
<1>2. CASE path \in DOMAIN Config /\ Config[path].lock > lock
  <2>1. table = Config /\ DOMAIN Config \cup {path} = DOMAIN Config
    BY <1>2 DEF Added
  <2> QED BY <1>2, <2>1
<1>3. CASE path \in DOMAIN Config /\ ~(Config[path].lock > lock)
  <2>1. table = [Config EXCEPT ![path].val = val] /\ DOMAIN Config \cup {path} = DOMAIN Config
    BY <1>3 DEF Added
  <2>2. table[path].val = val /\ table[path].lock = Config[path].lock
    BY <1>3, <2>1
  <2> QED BY <1>3, <2>1, <2>2
<1> QED BY <1>1, <1>2, <1>3

-----------------------------------------------------------------------------
(* The invariant is inductive. *)

\* Constants: words, keys and the values of the choice.
LEMMA KnownWords ==
    /\ SectionNames \cup PairKeys \cup ArgumentKeys \cup {Choice} \subseteq Path
    /\ Choice \notin PairKeys /\ Len(Choice) = 1
    /\ \A name \in Layouts : LayoutOf(name) \in Word
<1>1. SectionNames \cup PairKeys \cup ArgumentKeys \subseteq Path
  BY LayoutAssumption DEF Word, Path
<1>2. <<"layout", 0, 0>> \in Word /\ \A name \in Layouts : <<"layout:", name, 0>> \in Word
  BY LayoutAssumption DEF Word, WordNames
<1>3. Choice \in Seq(Word) /\ Len(Choice) = 1 /\ Choice # <<>>
  BY <1>2 DEF Choice
<1> QED BY <1>1, <1>2, <1>3, LayoutAssumption DEF Path, Choice, LayoutOf

THEOREM CfgInvInit == CfgInit => CfgInv
<1> SUFFICES ASSUME CfgInit PROVE CfgInv
  OBVIOUS
<1>1. DOMAIN NoEntries = {} /\ NoEntries \in [{} -> [val : Values \cup Layouts, lock : {0, 1}]]
  BY DEF NoEntries
<1>2. Widgets \in Seq(ToSet(Widgets)) /\ section \in Seq(Word)
  BY DEF CfgInit
<1>3. CfgTyped
  BY <1>1, <1>2 DEF CfgInit, CfgTyped
<1>4. DOMAIN Said = {}
  BY <1>1 DEF CfgInit, Said
<1> QED BY <1>1, <1>3, <1>4 DEF CfgInit, CfgInv, ChoiceNamed, EntriesSaid, WidgetsKept

\* An argument is stored, with the lock.
LEMMA ArgumentKeeps ==
    ASSUME CfgInv, NEW key \in ArgumentKeys, NEW val \in Layouts, Argument(key, val)
    PROVE  CfgInv'
<1> USE DEF CfgInv
<1>1. /\ phase = "arguments" /\ phase' = phase /\ Config' = Added(key, val, 1)
      /\ byArgument' = With(byArgument, key, val) /\ byFile' = byFile
      /\ section' = section /\ list' = list /\ Widgets' = Widgets
  BY DEF Argument
<1>2. key \in Path
  BY KnownWords
<1>3. /\ DOMAIN Config' = DOMAIN Config \cup {key}
      /\ Config' \in [DOMAIN Config' -> [val : Values \cup Layouts, lock : {0, 1}]]
      /\ \A p \in DOMAIN Config \ {key} : Config'[p] = Config[p]
      /\ Config'[key].lock = IF key \in DOMAIN Config THEN Config[key].lock ELSE 1
      /\ Config'[key].val = IF key \in DOMAIN Config /\ Config[key].lock > 1 THEN Config[key].val ELSE val
  <2>1. CfgTyped /\ 1 \in {0, 1} /\ val \in Values \cup Layouts
    OBVIOUS
  <2>2. HasAdded(Config', key, val, 1)
    BY <1>1, <1>2, <2>1, AddedEntry
  <2> QED BY <2>2 DEF HasAdded
<1>4. /\ DOMAIN Said' = DOMAIN Said \cup {key} /\ DOMAIN byArgument' = DOMAIN byArgument \cup {key}
      /\ \A p \in DOMAIN Said' : Said'[p] = IF p = key THEN val ELSE Said[p]
  BY <1>1, SaidMore
<1>5. /\ DOMAIN Config = DOMAIN Said /\ DOMAIN byFile = {} /\ list = {} /\ Widgets = <<>>
      /\ \A p \in DOMAIN Config : /\ Config[p].val = Said[p]
                                  /\ Config[p].lock = 1 <=> p \in DOMAIN byArgument
  BY <1>1 DEF EntriesSaid
<1>6. DOMAIN Said = DOMAIN byArgument
  BY <1>5 DEF Said
<1>7. key \in DOMAIN Config => Config[key].lock = 1
  BY <1>5, <1>6
<1>8. Config'[key].val = val /\ Config'[key].lock = 1
  BY <1>3, <1>7
<1>9. CfgTyped'
  BY <1>1, <1>2, <1>3, <1>4 DEF CfgTyped
<1>10. ChoiceNamed'
  BY <1>4 DEF ChoiceNamed
<1>11. \A p \in DOMAIN Config' : Config'[p].val = Said'[p] /\ (Config'[p].lock = 1 <=> p \in DOMAIN byArgument')
  <2> TAKE p \in DOMAIN Config'
  <2>1. CASE p = key
    BY <1>3, <1>4, <1>5, <1>8, <2>1
  <2>2. CASE p # key
    BY <1>3, <1>4, <1>5, <2>2
  <2> QED BY <2>1, <2>2
<1>12. EntriesSaid'
  BY <1>1, <1>3, <1>4, <1>5, <1>11 DEF EntriesSaid
<1>13. WidgetsKept'
  BY <1>1 DEF WidgetsKept
<1> QED BY <1>9, <1>10, <1>12, <1>13

\* A line is stored, unless an argument said something else.
LEMMA PairKeeps ==
    ASSUME CfgInv, NEW key \in Path, NEW val \in Values \cup Layouts, Pair(key, val),
           key = Choice => val \in Layouts
    PROVE  CfgInv'
<1> USE DEF CfgInv
<1> DEFINE full == section \o key
<1>1. /\ phase = "reading" /\ phase' = phase /\ Config' = Added(full, val, 0)
      /\ byFile' = With(byFile, full, val) /\ byArgument' = byArgument
      /\ section' = section /\ list' = list /\ Widgets' = Widgets
  BY DEF Pair, ReadLine, CfgTyped
<1>2. full \in Path /\ (full = Choice => key = Choice)
  <2>1. section \in Seq(Word) /\ key \in Seq(Word) /\ key # <<>> /\ Len(key) \in Nat \ {0}
    BY EmptySeq DEF CfgTyped, Path
  <2>2. full \in Seq(Word) /\ Len(full) = Len(section) + Len(key) /\ Len(section) \in Nat
    BY <2>1, ConcatProperties, LenProperties
  <2>3. full # <<>>
    <3>1. Len(full) # 0
      BY <2>1, <2>2
    <3> QED BY <3>1
  <2>4. ASSUME full = Choice PROVE key = Choice
    <3>1. Len(section) = 0
      BY <2>1, <2>2, <2>4, KnownWords
    <3>2. section = <<>>
      BY <2>1, <3>1, EmptySeq
    <3>3. <<>> \o key = key
      BY <2>1, ConcatEmptySeq
    <3> QED BY <2>4, <3>2, <3>3
  <2> QED BY <2>2, <2>3, <2>4 DEF Path
<1> HIDE DEF full
<1>3. /\ DOMAIN Config' = DOMAIN Config \cup {full}
      /\ Config' \in [DOMAIN Config' -> [val : Values \cup Layouts, lock : {0, 1}]]
      /\ \A p \in DOMAIN Config \ {full} : Config'[p] = Config[p]
      /\ Config'[full].lock = IF full \in DOMAIN Config THEN Config[full].lock ELSE 0
      /\ Config'[full].val = IF full \in DOMAIN Config /\ Config[full].lock > 0 THEN Config[full].val ELSE val
  <2>1. CfgTyped /\ full \in Path /\ 0 \in {0, 1} /\ Config' = Added(full, val, 0)
    BY <1>1, <1>2
  <2>2. HasAdded(Config', full, val, 0)
    BY <2>1, AddedEntry
  <2> QED BY <2>2 DEF HasAdded
<1>4. /\ DOMAIN Said' = DOMAIN Said \cup {full} /\ DOMAIN byFile' = DOMAIN byFile \cup {full}
      /\ \A p \in DOMAIN Said' :
             Said'[p] = IF p = full /\ full \notin DOMAIN byArgument THEN val ELSE Said[p]
  BY <1>1, SaidMore
<1>5. /\ DOMAIN Config = DOMAIN Said /\ list = {} /\ Widgets = <<>>
      /\ \A p \in DOMAIN Config : /\ Config[p].val = Said[p]
                                  /\ Config[p].lock = 1 <=> p \in DOMAIN byArgument
  BY <1>1 DEF EntriesSaid
<1>6. DOMAIN byArgument \subseteq DOMAIN Said
  BY DEF Said
<1>7. full \in DOMAIN Config => Config[full].lock \in {0, 1}
  BY DEF CfgTyped
<1>9. CfgTyped'
  BY <1>1, <1>2, <1>3, <1>4 DEF CfgTyped
<1>10. ChoiceNamed'
  BY <1>2, <1>4, <1>6 DEF ChoiceNamed
<1>11. \A p \in DOMAIN Config' : Config'[p].val = Said'[p] /\ (Config'[p].lock = 1 <=> p \in DOMAIN byArgument')
  <2> TAKE p \in DOMAIN Config'
  <2>1. CASE p = full /\ full \in DOMAIN byArgument
    BY <1>1, <1>3, <1>4, <1>5, <1>6, <2>1
  <2>2. CASE p = full /\ full \notin DOMAIN byArgument
    BY <1>1, <1>3, <1>4, <1>5, <1>7, <2>2
  <2>3. CASE p # full
    BY <1>1, <1>3, <1>4, <1>5, <2>3
  <2> QED BY <2>1, <2>2, <2>3
<1>12. EntriesSaid'
  BY <1>1, <1>3, <1>4, <1>5, <1>11 DEF EntriesSaid
<1>13. WidgetsKept'
  BY <1>1 DEF WidgetsKept
<1> QED BY <1>9, <1>10, <1>12, <1>13

\* Sections open and close.
LEMMA SectionKeeps ==
    ASSUME CfgInv, (\E key \in SectionNames : Open(key)) \/ Close
    PROVE  CfgInv'
<1> USE DEF CfgInv
<1>1. /\ phase' = phase /\ Config' = Config /\ byArgument' = byArgument /\ byFile' = byFile
      /\ list' = list /\ Widgets' = Widgets
  BY DEF Open, Close, ReadLine
<1>2. section' \in Seq(Word)
  <2>1. ASSUME NEW key \in SectionNames, Open(key) PROVE section' \in Seq(Word)
    <3>1. key \in Seq(Word)
      BY KnownWords DEF Path
    <3>2. section' = section \o key
      BY <2>1 DEF Open
    <3> QED BY <3>1, <3>2, ConcatProperties DEF CfgTyped
  <2>2. CASE Close
    <3>1. section' = Front(section) /\ section \in Seq(Word)
      BY <2>2 DEF Close, CfgTyped
    <3>2. Len(section) \in Nat /\ \A i \in 1..Len(section) - 1 : section[i] \in Word
      BY <3>1, LenProperties, ElementOfSeq
    <3>3. SubSeq(section, 1, Len(section) - 1) \in Seq(Word)
      <4>1. Len(section) - 1 \in Int /\ 1 \in Int
        BY <3>2
      <4> QED BY <3>2, <4>1, SubSeqProperties
    <3> QED BY <3>1, <3>3 DEF Front
  <2> QED BY <2>1, <2>2
<1>3. Said' = Said /\ Placed' = Placed /\ Chosen' = Chosen /\ Done' = Done /\ WidgetsMeant' = WidgetsMeant
  BY <1>1 DEF Said, Placed, Chosen, Done, WidgetsMeant, KeysMeant, SaidOf
<1>4. CfgTyped' /\ ChoiceNamed' /\ EntriesSaid'
  BY <1>1, <1>2, <1>3 DEF CfgTyped, ChoiceNamed, EntriesSaid
<1>5. WidgetsKept'
  BY <1>1, <1>3 DEF WidgetsKept
<1> QED BY <1>4, <1>5

\* The program exits.
LEMMA RefuseKeeps ==
    ASSUME CfgInv, Refuse, phase = "reading"
    PROVE  CfgInv'
<1>1. /\ phase' = "refused" /\ DOMAIN Config' = {} /\ DOMAIN byArgument' = {} /\ DOMAIN byFile' = {}
      /\ section' = <<>> /\ list' = list /\ Widgets' = Widgets
      /\ Config' \in [{} -> [val : Values \cup Layouts, lock : {0, 1}]]
  BY DEF Refuse, NoEntries
<1>2. DOMAIN Said' = {}
  BY <1>1 DEF Said
<1>3. list = {} /\ Widgets = <<>> /\ Widgets \in Seq(ToSet(Widgets))
  BY DEF CfgInv, EntriesSaid, CfgTyped
<1>4. section' \in Seq(Word)
  BY <1>1
<1>5. CfgTyped'
  BY <1>1, <1>3, <1>4 DEF CfgTyped
<1> QED BY <1>1, <1>2, <1>3, <1>5 DEF CfgInv, ChoiceNamed, EntriesSaid, WidgetsKept

\* The arguments or the file end.
LEMMA EndKeeps ==
    ASSUME CfgInv, ArgumentsEnd \/ EndOfFile
    PROVE  CfgInv'
<1> USE DEF CfgInv
<1>1. CASE phase' = "refused"
  <2>1. Refuse /\ phase = "reading"
    BY <1>1 DEF ArgumentsEnd, EndOfFile
  <2> QED BY <2>1, RefuseKeeps
<1>2. CASE phase' # "refused"
  <2>1. /\ \/ phase = "arguments" /\ phase' = "reading"
           \/ phase = "reading" /\ phase' = "read" /\ Choice \in DOMAIN Config
        /\ UNCHANGED <<Config, section, list, Widgets, byArgument, byFile>>
    BY <1>2 DEF ArgumentsEnd, EndOfFile, Refuse
  <2>2. Said' = Said
    BY <2>1 DEF Said
  <2>3. DOMAIN Config = DOMAIN Said
    BY <2>1 DEF EntriesSaid
  <2>4. CfgTyped' /\ ChoiceNamed'
    BY <2>1, <2>2 DEF CfgTyped, ChoiceNamed
  <2>5. EntriesSaid'
    BY <2>1, <2>2, <2>3 DEF EntriesSaid
  <2>6. WidgetsKept'
    BY <2>1 DEF WidgetsKept
  <2> QED BY <2>4, <2>5, <2>6
<1> QED BY <1>1, <1>2

\* The layout is chosen and migrated.
LEMMA MigrateKeeps ==
    ASSUME CfgInv, Migrate
    PROVE  CfgInv'
<1> USE DEF CfgInv
<1>1. /\ phase = "read" /\ phase' = "migrated" /\ Config' = Renamed(Chosen) /\ list' = Listed(Config', Chosen)
      /\ UNCHANGED <<section, Widgets, byArgument, byFile>>
  BY DEF Migrate
<1>2. /\ DOMAIN Config = DOMAIN Said /\ Widgets = <<>> /\ Choice \in DOMAIN Said
      /\ \A path \in DOMAIN Config : Config[path].val = Said[path]
  BY <1>1 DEF EntriesSaid
<1>3. Chosen = LayoutOf(Said[Choice]) /\ Chosen \in Word
  BY <1>2, KnownWords DEF Chosen, ChoiceNamed
<1>4. DOMAIN Config \subseteq Path
  BY <1>2 DEF CfgTyped, Said
<1> DEFINE old == {key \in Path : OldStyle(key) /\ Under(Chosen, key) \in DOMAIN Config
                                  /\ Under(Chosen, NewStyle(key)) \notin DOMAIN Config}
<1>5. /\ DOMAIN Config' \subseteq Path
      /\ \A path : path \in DOMAIN Config' <=>
                      \/ path \in DOMAIN Config /\ \A key \in old : path # Under(Chosen, key)
                      \/ \E key \in old : path = Under(Chosen, NewStyle(key))
      /\ \A key \in old : Config'[Under(Chosen, NewStyle(key))] = Config[Under(Chosen, key)]
      /\ \A path \in DOMAIN Config \cap DOMAIN Config' : Config'[path] = Config[path]
  BY <1>1, <1>3, <1>4, RenamedEntries
<1>6. ASSUME NEW key \in old PROVE Choice # Under(Chosen, key)
  <2>1. key \in Seq(Word) /\ Len(key) = 2
    BY DEF Path, OldStyle
  <2> HIDE DEF old
  <2>2. Len(Under(Chosen, key)) = Len(key) + 1
    BY <1>3, <2>1, WordBefore
  <2> QED BY <2>1, <2>2, KnownWords
<1>7. Config'[Choice] = Config[Choice]
  BY <1>2, <1>5, <1>6
<1>8. Chosen' = Chosen
  BY <1>7 DEF Chosen
<1>9. Wants(Config', Chosen, Listed(Config', Chosen)) = WidgetsMeant
  <2>1. Wants(Renamed(Chosen), Chosen, Listed(Renamed(Chosen), Chosen)) = AskedBy(KeysMeant(Chosen))
    BY <1>2, <1>3, <1>4, RenamedMeans
  <2> QED BY <1>1, <1>3, <2>1 DEF AskedBy, WidgetsMeant
<1>10. Said' = Said /\ Placed' = Placed /\ WidgetsMeant' = WidgetsMeant
  BY <1>1 DEF Said, Placed, WidgetsMeant, KeysMeant, SaidOf
<1>11. Config' \in [DOMAIN Config' -> [val : Values \cup Layouts, lock : {0, 1}]]
  <2>1. \A path \in DOMAIN Config' : Config'[path] \in [val : Values \cup Layouts, lock : {0, 1}]
    <3> TAKE path \in DOMAIN Config'
    <3>1. \E p \in DOMAIN Config : Config'[path] = Config[p]
      BY <1>5
    <3> QED BY <3>1 DEF CfgTyped
  <2>2. Config' = [path \in DOMAIN Config' |-> Config'[path]]
    BY <1>1 DEF Renamed
  <2> QED BY <2>1, <2>2
<1>12. CfgTyped' /\ ChoiceNamed' /\ EntriesSaid'
  BY <1>1, <1>10, <1>11 DEF CfgTyped, ChoiceNamed, EntriesSaid
<1>13. Wants(Config, Chosen, Listed(Config, Chosen) \ list)' = {} /\ Done' = {}
  <2>1. (Listed(Config, Chosen) \ list)' = {}
    BY <1>1, <1>8
  <2> QED BY <2>1 DEF Wants, Done, Fitting
<1>14. Placed' = {} /\ Len(Widgets') = 0
  BY <1>1, <1>2 DEF Placed, ToSet
<1>15. WidgetsKept'
  BY <1>1, <1>3, <1>5, <1>8, <1>9, <1>10, <1>13, <1>14, FS_EmptySet, LayoutAssumption DEF WidgetsKept
<1> QED BY <1>12, <1>15

\* An entry of the list is done: its place is a new one.
LEMMA PlaceKeeps ==
    ASSUME CfgInv, Place
    PROVE  CfgInv'
<1> USE DEF CfgInv
<1> DEFINE keys == Listed(Config, Chosen)
           wanted == Wants(Config, Chosen, keys \ list)
<1>1. PICK key \in list :
          /\ list' = list \ {key}
          /\ Widgets' = IF PlaceOf(key) = {} THEN Widgets
                        ELSE WithWidget(key, Config[Under(Chosen, key)].val, CHOOSE place \in PlaceOf(key) : TRUE)
  BY DEF Place
<1>2. /\ phase = "migrated" /\ phase' = phase /\ Config' = Config
      /\ UNCHANGED <<section, byArgument, byFile>>
  BY DEF Place
<1>3. /\ DOMAIN Config \subseteq Path /\ Chosen \in Word
      /\ Wants(Config, Chosen, keys) = WidgetsMeant /\ list \subseteq keys
      /\ Placed \subseteq Done /\ IsFiniteSet(Done)
      /\ Len(Widgets) = Cardinality(Placed)
      /\ Cardinality(Placed) = IF Cardinality(Done) < MAX_WIDGETS THEN Cardinality(Done) ELSE MAX_WIDGETS
  BY <1>2 DEF WidgetsKept
<1>4. /\ Said' = Said /\ Chosen' = Chosen /\ WidgetsMeant' = WidgetsMeant
      /\ Listed(Config, Chosen)' = keys
  BY <1>2 DEF Said, Chosen, WidgetsMeant, KeysMeant, SaidOf
<1>5. keys \subseteq Seq(Word)
  BY <1>3, ListedKeys DEF Path
<1> DEFINE asked == {[key |-> key, place |-> place, name |-> Config[Under(Chosen, key)].val] : place \in PlaceOf(key)}
<1>6. Done = Fitting(wanted) /\ Done' = Fitting(wanted \cup asked)
  <2>1. (Listed(Config, Chosen) \ list)' = (keys \ list) \cup {key}
    BY <1>1, <1>3, <1>4
  <2>2. Wants(Config, Chosen, Listed(Config, Chosen) \ list)' = Wants(Config, Chosen, (keys \ list) \cup {key})
    BY <1>2, <1>4, <2>1
  <2>3. Wants(Config, Chosen, (keys \ list) \cup {key}) = wanted \cup asked
    BY DEF Wants
  <2> QED BY <2>2, <2>3 DEF Done, Fitting
<1>7. CfgTyped' /\ ChoiceNamed' /\ EntriesSaid' /\ Len(Widgets) \in Nat /\ IsFiniteSet(Done')
      /\ Placed' \subseteq Done' /\ Len(Widgets') = Cardinality(Placed')
      /\ Cardinality(Placed') = IF Cardinality(Done') < MAX_WIDGETS THEN Cardinality(Done') ELSE MAX_WIDGETS
  <2>1. ChoiceNamed' /\ EntriesSaid'
    BY <1>2, <1>4 DEF ChoiceNamed, EntriesSaid
  <2>2. CfgTyped /\ Len(Widgets) \in Nat
    BY LenProperties DEF CfgTyped
  <2>3. Widgets' = Widgets => CfgTyped' /\ Placed' = Placed
    BY <1>2 DEF CfgTyped, Placed
  <2>4. CASE asked = {}
    <3>1. PlaceOf(key) = {}
      BY <2>4
    <3>2. Widgets' = Widgets /\ Done' = Done
      BY <1>1, <1>6, <2>4, <3>1
    <3> QED BY <1>3, <2>1, <2>2, <2>3, <3>2
  <2>5. CASE asked # {}
    <3>1. PICK place \in PlaceOf(key) : TRUE
      BY <2>5
    <3>2. key \in Seq(Word) /\ key \in list
      BY <1>3, <1>5
    <3>3. PlaceOf(key) = {place}
      BY <3>1, <3>2, OnePlace
    <3> DEFINE name == Config[Under(Chosen, key)].val
               w == [key |-> key, place |-> place, name |-> name]
    <3>4. asked = {w}
      BY <3>3
    <3>5. w \notin wanted
      <4>1. ASSUME w \in wanted PROVE FALSE
        <5>1. PICK other \in keys \ list : \E p \in PlaceOf(other) :
                  w = [key |-> other, place |-> p, name |-> Config[Under(Chosen, other)].val]
          BY <4>1, WantsElement
        <5>2. other = key
          BY <5>1
        <5> QED BY <3>2, <5>1, <5>2
      <4> QED BY <4>1
    <3>6. Widgets' = WithWidget(key, name, place)
      BY <1>1, <3>3
    <3> HIDE DEF asked, wanted, keys
    <3>7. CASE WidgetType[name] # place.type
      <4>1. Widgets' = Widgets
        BY <3>6, <3>7 DEF WithWidget
      <4>2. Done' = Done
        BY <1>6, <3>4, <3>7 DEF Fitting
      <4> QED BY <1>3, <2>1, <2>2, <2>3, <4>1, <4>2
    <3>8. CASE WidgetType[name] = place.type
      <4>1. Done' = Done \cup {w}
        BY <1>6, <3>4, <3>8 DEF Fitting
      <4>2. w \notin Done
        BY <1>6, <3>5 DEF Fitting
      <4>3. IsFiniteSet(Done') /\ Cardinality(Done') = Cardinality(Done) + 1 /\ Cardinality(Done) \in Nat
        BY <1>3, <4>1, <4>2, FS_AddElement, FS_CardinalityType
      <4>4. MAX_WIDGETS \in Nat
        BY LayoutAssumption
      <4>5. CASE Len(Widgets) >= MAX_WIDGETS
        <5>1. Widgets' = Widgets
          BY <3>6, <4>5 DEF WithWidget
        <5>2. Placed' = Placed /\ Placed' \subseteq Done'
          BY <1>3, <2>3, <4>1, <5>1
        <5>3. Cardinality(Placed) = MAX_WIDGETS /\ ~(Cardinality(Done') < MAX_WIDGETS)
          BY <1>3, <4>3, <4>4, <4>5
        <5> QED BY <1>3, <2>1, <2>2, <2>3, <4>3, <5>1, <5>2, <5>3
      <4>6. CASE ~(Len(Widgets) >= MAX_WIDGETS)
        <5>1. \E record : /\ Widgets' = Append(Widgets, record)
                          /\ record.key = key /\ record.place = place /\ record.name = name
          BY <3>6, <3>8, <4>6 DEF WithWidget
        <5>2. PICK record : Widgets' = Append(Widgets, record) /\ record.key = key /\ record.place = place /\ record.name = name
          BY <5>1
        <5>3. /\ Widgets' \in Seq(ToSet(Widgets')) /\ Len(Widgets') = Len(Widgets) + 1
              /\ Placed' = Placed \cup {w}
          BY <2>2, <5>2, OneMorePlaced
        <5>4. CfgTyped'
          BY <1>2, <5>3 DEF CfgTyped
        <5>5. Placed' \subseteq Done' /\ w \notin Placed
          BY <1>3, <4>1, <4>2, <5>3
        <5>6. IsFiniteSet(Placed)
          BY <1>3, FS_Subset
        <5>7. Cardinality(Placed') = Cardinality(Placed) + 1
          BY <5>3, <5>5, <5>6, FS_AddElement
        <5>8. Cardinality(Placed) = Cardinality(Done) /\ Cardinality(Done) < MAX_WIDGETS
          BY <1>3, <2>2, <4>3, <4>4, <4>6
        <5>9. Cardinality(Placed') = IF Cardinality(Done') < MAX_WIDGETS THEN Cardinality(Done') ELSE MAX_WIDGETS
          BY <4>3, <4>4, <5>7, <5>8
        <5> QED BY <1>3, <2>1, <2>2, <4>3, <5>3, <5>4, <5>5, <5>7, <5>9
      <4> QED BY <4>5, <4>6
    <3> QED BY <3>7, <3>8
  <2> QED BY <2>4, <2>5
<1>8. WidgetsKept'
  BY <1>1, <1>2, <1>3, <1>4, <1>7 DEF WidgetsKept
<1> QED BY <1>7, <1>8

\* The layout is up.
LEMMA RunKeeps ==
    ASSUME CfgInv, Run \/ UNCHANGED cfgVars
    PROVE  CfgInv'
<1>1. /\ UNCHANGED <<Config, section, list, Widgets, byArgument, byFile>>
      /\ \/ phase' = phase
         \/ phase = "migrated" /\ phase' = "running" /\ list = {}
  BY DEF Run, cfgVars
<1>2. /\ Said' = Said /\ Placed' = Placed /\ Chosen' = Chosen /\ Done' = Done /\ WidgetsMeant' = WidgetsMeant
  BY <1>1 DEF Said, Placed, Chosen, Done, WidgetsMeant, KeysMeant, SaidOf
<1>3. CfgTyped' /\ ChoiceNamed' /\ EntriesSaid'
  BY <1>1, <1>2 DEF CfgInv, CfgTyped, ChoiceNamed, EntriesSaid
<1>4. WidgetsKept'
  BY <1>1, <1>2 DEF CfgInv, WidgetsKept
<1> QED BY <1>3, <1>4 DEF CfgInv

\* The table of entries and that of widgets are what the arguments and the lines make them,
\* after every step of reading the configuration and of setting up the layout.
THEOREM CfgInductive == CfgSpec => []CfgInv
<1>1. CfgInv /\ [CfgNext]_cfgVars => CfgInv'
  <2> SUFFICES ASSUME CfgInv, [CfgNext]_cfgVars PROVE CfgInv'
    OBVIOUS
  <2>1. CASE \E key \in ArgumentKeys, val \in Layouts : Argument(key, val)
    BY <2>1, ArgumentKeeps
  <2>2. ASSUME NEW key \in PairKeys, NEW val \in Values, Pair(key, val) PROVE CfgInv'
    <3>1. key \in Path /\ key # Choice /\ val \in Values \cup Layouts
      BY KnownWords
    <3> QED BY <2>2, <3>1, PairKeeps
  <2>3. ASSUME NEW val \in Layouts, Pair(Choice, val) PROVE CfgInv'
    <3>1. Choice \in Path /\ val \in Values \cup Layouts
      BY KnownWords
    <3> QED BY <2>3, <3>1, PairKeeps
  <2>4. CASE BadLine
    BY <2>4, RefuseKeeps DEF BadLine
  <2> QED
    BY <2>1, <2>2, <2>3, <2>4, SectionKeeps, EndKeeps, MigrateKeeps, PlaceKeeps, RunKeeps DEF CfgNext
<1> QED BY <1>1, CfgInvInit, PTL DEF CfgSpec

\* When the layout is up, its widgets are those at the places that the sections of the file
\* and the arguments name, as many of them as there is room for (layout_init, widget_add).
THEOREM LayoutUp == CfgSpec => []LayoutAsWritten
<1>1. CfgInv => LayoutAsWritten
  <2> SUFFICES ASSUME CfgInv, phase = "running" PROVE LayoutAsWritten
    BY DEF LayoutAsWritten
  <2>1. /\ Wants(Config, Chosen, Listed(Config, Chosen)) = WidgetsMeant /\ list = {}
        /\ Placed \subseteq Done /\ Len(Widgets) = Cardinality(Placed)
        /\ Cardinality(Placed) = IF Cardinality(Done) < MAX_WIDGETS THEN Cardinality(Done) ELSE MAX_WIDGETS
    BY DEF CfgInv, WidgetsKept
  <2>2. Done = Fitting(WidgetsMeant)
    <3>1. Listed(Config, Chosen) \ list = Listed(Config, Chosen)
      BY <2>1
    <3> QED BY <2>1, <3>1 DEF Done
  <2> QED BY <2>1, <2>2 DEF LayoutAsWritten
<1> QED BY <1>1, CfgInductive, PTL
=============================================================================
