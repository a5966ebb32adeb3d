----------------------------- MODULE Evaluator -----------------------------
(***************************************************************************)
(* How expressions of the configuration become trees (evaluator.c), and    *)
(* the grammar that they should follow.  An expression is a sequence of    *)
(* tokens, which is what Parse makes of the text; garbage ends it.         *)
(***************************************************************************)
EXTENDS Integers, Sequences, SequencesExt, FiniteSets, FiniteSetsExt

CONSTANTS
    Alphabets,      \* sets of tokens that expressions are made of
    MaxTokens       \* bound on the length of an expression

VARIABLES
    alphabet,       \* the tokens of the expression
    expression

evalVars == <<alphabet, expression>>

Numbers == {"0", "1", "2"}
\* An empty string, and another one
Strings == {"''", "'a'"}
Identifiers == {"x", "f", "g"}
\* Functions and their number of arguments, -1 for any
ArgcOf == [f |-> -1, g |-> 1]
Functions == DOMAIN ArgcOf
\* Levels of binary operators, the loosest first
LevelOf(op) ==
    CASE op = ";" -> 1
      [] op = "|" -> 4
      [] op = "&" -> 5
      [] op \in {"==", "!=", "eq", "ne"} -> 6
      [] op \in {"<", ">", "<=", ">=", "lt", "gt", "le", "ge"} -> 7
      [] op \in {"+", "-", "."} -> 8
      [] op \in {"*", "/", "%"} -> 9
      [] op = "^" -> 10
      [] OTHER -> 0

\* Nodes: NewNode, LinkNode and JunkNode
Node(op, children) == <<op>> \o children
Junk == <<"">>
Link(root, child) == Append(root, child)

-----------------------------------------------------------------------------
(* The parser.  A result is a tree, the place of the token that comes next, *)
(* and whether there was an error; after most of them it goes on.           *)

\* Garbage ends it.
Token(s, p) == IF p > Len(s) \/ \E i \in 1..p : s[i] = "#" THEN "" ELSE s[p]
\* At the end, and of an empty string, the word is empty.
Wordless(t) == t \in {"", "''"}
Result(tree, next, bad) == [tree |-> tree, next |-> next, bad |-> bad]

RECURSIVE Level(_, _, _), Level12(_, _), Arguments(_, _, _)

\* Arguments of a function, from the token behind "(" or a comma
Arguments(s, p, root) ==
    LET t == Token(s, p)
        argument == Level(s, p, 1)
        read == IF t = "," THEN Result(Link(root, Junk), p, TRUE)
                ELSE Result(Link(root, argument.tree), argument.next, argument.bad)
        rest == Arguments(s, read.next + 1, read.tree)
    IN  IF t = ")" THEN Result(root, p, FALSE)
        ELSE IF Token(s, read.next) = "," THEN [rest EXCEPT !.bad = @ \/ read.bad]
        ELSE [read EXCEPT !.bad = @ \/ Token(s, read.next) # ")"]

\* Arguments that a function lacks are filled up.
Counted(call, f) ==
    LET lacks == ArgcOf[f] - (Len(call.tree) - 1)
    IN  IF f \notin Functions THEN [call EXCEPT !.bad = TRUE]
        ELSE IF ArgcOf[f] < 0 \/ lacks = 0 THEN call
        ELSE [call EXCEPT !.bad = TRUE, !.tree = @ \o [i \in 1..lacks |-> Junk]]

\* Level12 takes the token that follows in any case, be it a closing brace or not.
Level12(s, p) ==
    LET t == Token(s, p)
        inner == Level(s, p + 1, 1)
        call == Arguments(s, p + 2, Node(t, <<>>))
        root == CASE t = "(" -> IF Token(s, inner.next) = ")" THEN inner
                                ELSE Result(Link(inner.tree, Junk), inner.next, TRUE)
                  [] t \in Identifiers /\ Token(s, p + 1) = "(" -> Counted(call, t)
                  [] t \in Numbers \cup Strings \/ (t \in Identifiers /\ Token(s, p + 1) # "(") -> Result(Node(t, <<>>), p, FALSE)
                  [] OTHER -> Result(Junk, p, TRUE)
    IN  [root EXCEPT !.next = @ + 1]

\* Variant for mutation: a sign takes a power.
Level11Power(s, p) ==
    LET sign == Token(s, p) \in {"+", "-", "!"}
        operand == IF sign THEN Level(s, p + 1, 10) ELSE Level12(s, p)
    IN  IF sign /\ Token(s, p) # "+" THEN [operand EXCEPT !.tree = Node(<<"sign", Token(s, p)>>, <<@>>)] ELSE operand

\* Level11: one sign at most
Level11(s, p) ==
    LET sign == Token(s, p) \in {"+", "-", "!"}
        operand == Level12(s, IF sign THEN p + 1 ELSE p)
    IN  IF sign /\ Token(s, p) # "+" THEN [operand EXCEPT !.tree = Node(<<"sign", Token(s, p)>>, <<@>>)] ELSE operand

\* Level03: a condition does not take another one but in braces.
Level03(s, p) ==
    LET if == Level(s, p, 4)
        then == Level(s, if.next + 1, 4)
        else == Level(s, then.next + 1, 4)
        colon == Token(s, then.next) = ":"
    IN  IF Token(s, if.next) # "?" THEN if
        ELSE Result(Node("?", <<if.tree, then.tree, IF colon THEN else.tree ELSE Junk>>),
                    IF colon THEN else.next ELSE then.next,
                    if.bad \/ then.bad \/ ~colon \/ else.bad)

\* Level02: an assignment looks ahead.
Level02(s, p) ==
    LET value == Level03(s, p + 2)
    IN  IF Token(s, p) \in Identifiers /\ Token(s, p + 1) = "="
        THEN [value EXCEPT !.tree = Node("=", <<Node(s[p], <<>>), @>>)]
        ELSE Level03(s, p)

\* An operand of a binary operator
Operand(s, p, n) == IF n = 10 THEN Level11(s, p) ELSE IF n = 1 THEN Level02(s, p) ELSE Level(s, p, n + 1)

\* Level01 and Level04 to Level10: operators of a level take what is left of them.
Level(s, p, n) ==
    LET RECURSIVE More(_)
        More(left) ==
            LET op == Token(s, left.next)
                right == Operand(s, left.next + 1, n)
            IN  IF LevelOf(op) # n THEN left
                ELSE More(Result(Node(op, <<left.tree, right.tree>>), right.next, left.bad \/ right.bad))
    IN  More(Operand(s, p, n))

\* Compile: the tree, or that there is none, and whether it said nothing.  An empty word is
\* taken for the end, be it the end or an empty string.
Compile(s) ==
    LET root == Level(s, 1, 1)
        garbage == \E p \in 1..Min({root.next, Len(s)}) : s[p] = "#"
    IN  IF Wordless(Token(s, 1)) THEN [tree |-> <<>>, silent |-> s = <<>> \/ s[1] # "#"]
        ELSE IF ~Wordless(Token(s, root.next)) THEN [tree |-> <<>>, silent |-> FALSE]
        ELSE [tree |-> root.tree, silent |-> ~root.bad /\ ~garbage]

-----------------------------------------------------------------------------
(* The grammar: an operator that is not in braces splits an expression, the *)
(* loosest one first, and of these the last.                                *)

Depth(s, p) == Cardinality({i \in 1..p - 1 : s[i] = "("}) - Cardinality({i \in 1..Min({p, Len(s)}) : s[i] = ")"})
Outside(s) == {p \in DOMAIN s : Depth(s, p) = 0}
Balanced(s) == (\A p \in DOMAIN s : Depth(s, p) >= 0) /\ Depth(s, Len(s) + 1) = 0
\* An operator after an operand is binary.
Binary(s, p) == p > 1 /\ s[p - 1] \in Numbers \cup Strings \cup Identifiers \cup {")"}
NoTree == <<"no tree">>
NodeOf(op, children) == IF NoTree \in ToSet(children) THEN NoTree ELSE <<op>> \o children

RECURSIVE Meant(_, _)
Meant(s, n) ==
    LET splits == {p \in Outside(s) : LevelOf(s[p]) = n /\ Binary(s, p)}
        last == Max(splits)
        asks == {p \in Outside(s) : s[p] = "?"}
        colons == {p \in Outside(s) : s[p] = ":"}
        condition == Cardinality(asks) = 1 /\ Cardinality(colons) = 1 /\ Max(asks) < Max(colons)
        \* braces and commas of a function
        marks == SetToSortSeq({p \in DOMAIN s : p \in {2, Len(s)} \/ (s[p] = "," /\ Depth(s, p) = 1)}, <)
        arguments == [i \in 1..Len(marks) - 1 |-> SubSeq(s, marks[i] + 1, marks[i + 1] - 1)]
        given == IF Last(arguments) = <<>> THEN Front(arguments) ELSE arguments
    IN  IF s = <<>> \/ ~Balanced(s) THEN NoTree
        ELSE IF splits # {} THEN NodeOf(s[last], <<Meant(SubSeq(s, 1, last - 1), n),
                                                   Meant(SubSeq(s, last + 1, Len(s)), n + 1)>>)
        ELSE IF n = 2 /\ Len(s) > 1 /\ s[1] \in Identifiers /\ s[2] = "="
        THEN NodeOf("=", <<<<s[1]>>, Meant(SubSeq(s, 3, Len(s)), 3)>>)
        ELSE IF n = 3 /\ condition
        THEN NodeOf("?", <<Meant(SubSeq(s, 1, Max(asks) - 1), 4),
                           Meant(SubSeq(s, Max(asks) + 1, Max(colons) - 1), 4),
                           Meant(SubSeq(s, Max(colons) + 1, Len(s)), 4)>>)
        ELSE IF n = 11 /\ s[1] = "+" THEN Meant(Tail(s), 12)
        ELSE IF n = 11 /\ s[1] \in {"-", "!"} THEN NodeOf(<<"sign", s[1]>>, <<Meant(Tail(s), 12)>>)
        ELSE IF n < 12 THEN Meant(s, n + 1)
        ELSE IF Len(s) = 1 THEN IF s[1] \in Numbers \cup Strings \cup Identifiers THEN s ELSE NoTree
        ELSE IF s[1] = "(" /\ Outside(s) = {1, Len(s)} THEN Meant(SubSeq(s, 2, Len(s) - 1), 1)
        ELSE IF s[1] \in Functions /\ s[2] = "(" /\ Outside(s) = {1, 2, Len(s)}
             /\ ArgcOf[s[1]] \in {-1, Len(given)}
        THEN NodeOf(s[1], [i \in DOMAIN given |-> Meant(given[i], 1)])
        ELSE NoTree

EvalInit ==
    /\ alphabet \in Alphabets
    /\ expression = <<>>

\* The expression is longer by a token.
EvalNext ==
    /\ Len(expression) < MaxTokens
    /\ \E t \in alphabet : expression' = Append(expression, t)
    /\ UNCHANGED alphabet

EvalSpec == EvalInit /\ [][EvalNext]_evalVars

-----------------------------------------------------------------------------
(* Properties. *)

\* An empty string begins the expression or follows a whole one.
TakenForEnd(s) ==
    \E p \in DOMAIN s : s[p] = "''" /\ (p = 1 \/ Meant(SubSeq(s, 1, p - 1), 1) # NoTree)

\* The parser goes from left to right with one token of look-ahead and goes on after
\* errors: it says nothing about the expressions of the grammar and no others, and these get
\* their tree, every sign, assignment, condition and argument at its place.  Excepted are
\* expressions in which Compile takes an empty string for the end.
ParsesAsMeant ==
    LET compiled == Compile(expression)
        meant == IF expression = <<>> THEN <<>> ELSE Meant(expression, 1)
    IN  \/ TakenForEnd(expression)
        \/ meant = NoTree /\ ~compiled.silent
        \/ meant # NoTree /\ compiled.silent /\ compiled.tree = meant
=============================================================================
