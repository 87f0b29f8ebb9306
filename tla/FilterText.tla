----------------------------- MODULE FilterText ------------------------------
(***************************************************************************)
(* The parser of --filter (cli/filter/index.ts), a recursive descent over  *)
(* a source that is a sequence of tokens here: parentheses, spacing        *)
(* (blanks or a comment), words, a JSON string, a JSON object.  A word is  *)
(* what no delimiter divides: two word tokens side by side are one word.   *)
(* "or" goes the way of "and", the other operators that of "tree" (one     *)
(* text), "within" (two) or "meta" (a JSON object).                        *)
(***************************************************************************)
EXTENDS Integers, Sequences, SequencesExt

CONSTANTS
    MaxDepth,       \* MAX_FILTER_DEPTH (16)
    MaxNodes,       \* MAX_FILTER_NODES (50)
    Tall            \* bound: the height of the expressions that are written

TextAssumptions == {MaxDepth, MaxNodes, Tall} \subseteq Nat \ {0}

Operators == {"and", "not", "tree", "within", "meta"}
Word == Operators \cup {"early", "late"}
Token == Word \cup {"(", ")", " ", "string", "{}"}

Node(operator, children, values) ==
    [operator |-> operator, children |-> children, values |-> values]

VARIABLES
    meant,      \* the expression somebody writes down
    source,     \* what was written, perhaps with a slip
    parsed      \* what the parser makes of it

vars == <<meant, source, parsed>>

-----------------------------------------------------------------------------
peek(s, i) == IF i <= Len(s) THEN s[i] ELSE "end"

Past(s, i, stops) == CHOOSE j \in i .. Len(s) + 1 :
    peek(s, j) \in stops /\ \A k \in i .. j - 1 : s[k] \notin stops

Sign == (Token \ Word) \cup {"end"}

skipSpacing(s, i) == Past(s, i, (Token \ {" "}) \cup {"end"})
readOperator(s, i) == Past(s, i, {"end", " ", ")"})
readAtom(s, i) == Past(s, i, Sign)

Fail(reason) == [error |-> reason]
Parsed(node, at, nodes) == [error |-> "none", node |-> node, at |-> at, nodes |-> nodes]

parseText(s, i) == IF peek(s, i) = "string" THEN i + 1 ELSE readAtom(s, i)

Arity == [operator \in {"tree", "within"} |-> IF operator = "tree" THEN 1 ELSE 2]

(* The arguments from the n-th on of an operator that takes texts.         *)
RECURSIVE Arguments(_, _, _, _, _)
Arguments(s, i, operator, nodes, values) ==
    LET start == skipSpacing(s, i)
        end == parseText(s, start)
    IN
    IF Len(values) = Arity[operator]
    THEN IF peek(s, start) = ")" THEN Parsed(Node(operator, <<>>, values), start + 1, nodes)
         ELSE Fail("arity")
    ELSE IF start = i \/ end = start THEN Fail("syntax")
    ELSE Arguments(s, end, operator, nodes, Append(values, SubSeq(s, start, end - 1)))

MetaObject(s, i, nodes) ==
    LET end == skipSpacing(s, i + 1) IN
    IF peek(s, i) # "{}" THEN Fail("json")
    ELSE IF peek(s, end) # ")" THEN Fail("arity")
    ELSE Parsed(Node("meta", <<>>, <<SubSeq(s, i, i)>>), end + 1, nodes)

RECURSIVE Expression(_, _, _, _)

RECURSIVE Several(_, _, _, _, _)
Several(s, i, depth, nodes, children) ==
    LET e == Expression(s, i, depth + 1, nodes)
        next == skipSpacing(s, e.at)
    IN
    IF peek(s, i) \in {")", "end"}
    THEN IF Len(children) < 2 THEN Fail("arity")
         ELSE IF peek(s, i) = ")" THEN Parsed(Node("and", children, <<>>), i + 1, nodes)
         ELSE Fail("syntax")
    ELSE IF e.error # "none" THEN e
    ELSE IF peek(s, next) # ")" /\ next = e.at THEN Fail("syntax")
    ELSE Several(s, next, depth, e.nodes, Append(children, e.node))

Negated(s, i, depth, nodes) ==
    LET e == Expression(s, i, depth + 1, nodes)
        end == skipSpacing(s, e.at)
    IN
    IF peek(s, i) \in {")", "end"} THEN Fail("arity")
    ELSE IF e.error # "none" THEN e
    ELSE IF peek(s, end) # ")" THEN Fail("arity")
    ELSE Parsed(Node("not", <<e.node>>, <<>>), end + 1, e.nodes)

(* parseExpression; nodes counts the expressions begun so far.             *)
Expression(s, i, depth, nodes) ==
    LET end == readOperator(s, i + 1)
        operator == peek(s, i + 1)
        args == skipSpacing(s, end)
    IN
    IF depth > MaxDepth THEN Fail("too_deep")
    ELSE IF nodes + 1 > MaxNodes THEN Fail("too_many_nodes")
    ELSE IF peek(s, i) # "(" \/ end # i + 2 \/ operator \notin Operators THEN Fail("syntax")
    ELSE IF operator \in {"tree", "within"} THEN Arguments(s, end, operator, nodes + 1, <<>>)
    ELSE IF args = end THEN Fail("syntax")
    ELSE CASE operator = "and" -> Several(s, args, depth, nodes + 1, <<>>)
           [] operator = "not" -> Negated(s, args, depth, nodes + 1)
           [] operator = "meta" -> MetaObject(s, args, nodes + 1)

RECURSIVE Valid(_)
(* compile: an interval has two timestamps, the first before the second.   *)
Valid(node) ==
    /\ node.operator = "within" => node.values = <<<<"early">>, <<"late">>>>
    /\ \A i \in DOMAIN node.children : Valid(node.children[i])

TrailingInputIgnored(s) ==
    LET e == Expression(s, skipSpacing(s, 1), 1, 0) IN
    IF e.error # "none" THEN e
    ELSE IF ~Valid(e.node) THEN Fail("validation") ELSE e

(* The text is tokens here: its byte limit and a leading byte order mark   *)
(* are left out.                                                           *)
parseFilter(s) ==
    LET e == Expression(s, skipSpacing(s, 1), 1, 0) IN
    IF e.error # "none" THEN e
    ELSE IF skipSpacing(s, e.at) <= Len(s) THEN Fail("syntax")
    ELSE IF ~Valid(e.node) THEN Fail("validation")
    ELSE e

-----------------------------------------------------------------------------
(* The expressions up to a height, and how each is written.                *)
Leaves ==
    {Node("tree", <<>>, <<<<"early">>>>), Node("meta", <<>>, <<<<"{}">>>>),
     Node("within", <<>>, <<<<"early">>, <<"late">>>>),
     Node("within", <<>>, <<<<"late">>, <<"string">>>>)}

ATree == Node("tree", <<>>, <<<<"not">>>>)

RECURSIVE Expressions(_)
Expressions(h) ==
    IF h = 1 THEN Leaves
    ELSE LET Smaller == Expressions(h - 1) IN
         Leaves \cup {Node("not", <<e>>, <<>>) : e \in Smaller}
                \cup {Node("and", <<ATree, e>>, <<>>) : e \in Smaller}
                \cup {Node("and", <<e, ATree, ATree>>, <<>>) : e \in Smaller}

RECURSIVE Written(_)
Written(node) ==
    LET parts == [i \in DOMAIN node.children |-> <<" ">> \o Written(node.children[i])]
                 \o [i \in DOMAIN node.values |-> <<" ">> \o node.values[i]]
    IN  <<"(", node.operator>> \o FlattenSeq(parts) \o <<")">>

(* Spacing says nothing beside other spacing, before ")" and at the ends.  *)
Normal(s) ==
    LET idle(i) == s[i] = " " /\ (i = 1 \/ peek(s, i + 1) \in {" ", ")", "end"}
                                  \/ \A j \in 1 .. i : s[j] = " ")
        said == SelectSeq([i \in DOMAIN s |-> i], LAMBDA i : ~idle(i))
    IN  [k \in DOMAIN said |-> s[said[k]]]

Init ==
    /\ meant \in Expressions(Tall) /\ source = Written(meant)
    /\ parsed = parseFilter(source)

(* A token is left out, put in, or another than was meant.                 *)
Slip ==
    /\ source = Written(meant)
    /\ \/ \E i \in DOMAIN source : source' = RemoveAt(source, i)
       \/ \E i \in DOMAIN source : \E t \in Token \ {source[i]} :
             source' = ReplaceAt(source, i, t)
       \/ \E i \in 1 .. Len(source) + 1, t \in Token : source' = InsertAt(source, i, t)
    /\ parsed' = parseFilter(source')
    /\ UNCHANGED meant

Next == Slip

Spec == Init /\ [][Next]_vars

-----------------------------------------------------------------------------
RECURSIVE Deep(_)
RECURSIVE Nodes(_)
Deep(node) == 1 + FoldLeft(LAMBDA n, d : IF d > n THEN d ELSE n, 0,
                           [i \in DOMAIN node.children |-> Deep(node.children[i])])
Nodes(node) == 1 + FoldLeft(LAMBDA n, k : n + Nodes(k), 0, node.children)

Acceptable(node) == Deep(node) <= MaxDepth /\ Nodes(node) <= MaxNodes /\ Valid(node)

(* "Parse and compile one filter expression" (filter/index.ts:93): a text  *)
(* is accepted only as the expression it is the text of, within the        *)
(* limits, and nothing that is written correctly, wherever more spacing is *)
(* put in, is refused or read as something else.                           *)
FilterSaysWhatIsWritten ==
    /\ parsed.error = "none" =>
          Written(parsed.node) = Normal(source) /\ Acceptable(parsed.node)
    /\ Written(meant) = Normal(source) /\ Acceptable(meant) =>
          parsed.error = "none" /\ parsed.node = meant
=============================================================================
