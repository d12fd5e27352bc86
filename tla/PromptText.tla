----------------------------- MODULE PromptText -----------------------------
(***************************************************************************)
(* Prompts as the parser, the graph builder and the prompt operations see  *)
(* them (core/parser.py, core/graph_builder.py, core/operations.py).       *)
(*                                                                         *)
(* A prompt text is the sequence of its PIECES, what stands between two    *)
(* top-level commas; a piece is the sequence of its ATOMS: words, which    *)
(* carry a weight (1 is the plain word), and the opening and closing tags  *)
(* of Modules.  A token is a run of pieces joined by commas, so the text   *)
(* of a token list, ", ".join(tokens), is its concatenation.  The          *)
(* spelling of a word, brackets and full stops inside pieces are left out. *)
(***************************************************************************)
EXTENDS Integers, Sequences, FiniteSets, SequencesExt

CONSTANTS Lines,        \* the ids of the Project's lines, in their order
          Separators,   \* those that head a Scene (route separators)
          Workbenches,  \* and workbench lines
          MaxNodes,     \* how many nodes the graph shows
          MaxTokens     \* bound: how many tokens a line has at most

Word(base, weight) == [t |-> "word", n |-> base, w |-> weight]
Open(m) == [t |-> "open", n |-> m, w |-> 1]
Close(m) == [t |-> "close", n |-> m, w |-> 1]
Plain(base) == <<<<Word(base, 1)>>>>          \* the token of a plain word
Reference(m) == <<<<Open(m)>>>>               \* the token that names a Module

Atoms(token) == FlattenSeq(token)
Text(tokens) == FlattenSeq(tokens)

\* What extract_mod_info takes a token for.
Ends(atoms, m) == {j \in 2..Len(atoms) : atoms[j] = Close(m)}
Kind(token) ==
    LET atoms == Atoms(token) IN
    IF atoms[1].t = "open"
    THEN IF Ends(atoms, atoms[1].n) # {} THEN "inline" ELSE "open"
    ELSE IF atoms[1].t = "close" THEN "close" ELSE "none"

ModName(token) == Atoms(token)[1].n
IsStructural(token) == Kind(token) \in {"open", "close"}
IsMod(token) == Kind(token) # "none"
IsReference(token, m) == Kind(token) = "open" /\ ModName(token) = m

\* The text of a token without its inline Module; empty for a tag.
Inside(atoms, ends) == IF ends = {} THEN <<>> ELSE SubSeq(atoms, 2, Max(ends) - 1)
Content(token) ==
    LET atoms == Atoms(token) IN
    CASE atoms[1].t = "word" -> atoms
      [] atoms[1].t = "open" -> Inside(atoms, Ends(atoms, atoms[1].n))
      [] OTHER -> <<>>

\* Only a content that is one weighted word has a weight that is not part of it.
WeightOf(content) == IF Len(content) = 1 THEN content[1].w ELSE 1
Weight(token) == WeightOf(Content(token))
BaseOf(content) == IF Len(content) = 1 THEN <<[content[1] EXCEPT !.w = 1]>> ELSE content
Base(token) == BaseOf(Content(token))

\* The key two tokens are compared by: the base, or the tag itself.
BaseOr(base, atoms) == IF base = <<>> THEN atoms ELSE base
Key(token) == BaseOr(Base(token), Atoms(token))
Keys(tokens) == {Key(t) : t \in Range(tokens)}
WordKeys(tokens) == Keys(SelectSeq(tokens, LAMBDA t : ~ IsStructural(t)))
Matches(token, word, mode) ==
    /\ ~ IsStructural(token)
    /\ IF mode = "contains" THEN \E i \in DOMAIN Base(token) : Base(token)[i].n = word
                            ELSE Base(token) = <<Word(word, 1)>>

FirstOfEach(tokens) ==
    FoldLeft(LAMBDA seen, t : IF Key(t) \in Keys(seen) THEN seen ELSE Append(seen, t), <<>>, tokens)

\* parse_prompt splits at every top-level comma; the parser of the Module
\* operations keeps an inline Module whole, commas and all.
Coarse(text) == [i \in DOMAIN text |-> <<text[i]>>]
RunEnd(text, i) ==
    LET m == text[i][1].n
        closes == {j \in i..Len(text) : \E k \in DOMAIN text[j] : text[j][k] = Close(m)} IN
    IF text[i][1].t = "open" /\ Len(text[i]) > 1 /\ closes # {} THEN Min(closes) ELSE i
Fine(text) ==
    LET from[i \in 1..Len(text) + 1] ==
            IF i > Len(text) THEN <<>>
            ELSE <<SubSeq(text, i, RunEnd(text, i))>> \o from[RunEnd(text, i) + 1]
    IN  from[1]

\* The Module tags of a text in order, as each parser sees them.
Tags(tokens) == [i \in DOMAIN SelectSeq(tokens, IsMod) |->
                    <<Kind(SelectSeq(tokens, IsMod)[i]), ModName(SelectSeq(tokens, IsMod)[i])>>]

-----------------------------------------------------------------------------
(* The graph: a node is a word at a depth or, merged, a word anywhere.     *)

NodeId(depth, token, merged) == <<IF merged THEN 0 ELSE depth, Key(token)>>
Path(tokens, merged) ==
    [d \in DOMAIN tokens |-> IF IsStructural(tokens[d]) THEN <<-1, Atoms(tokens[d])>>
                                                        ELSE NodeId(d, tokens[d], merged)]
Special(l) == l \in Separators \cup Workbenches
LineIds == Range(Lines)
Active(prompts, l) == ~ prompts[l].deleted /\ ~ Special(l)
Graphed(prompts, merged) ==
    [l \in LineIds |-> IF Active(prompts, l)
                       THEN [prompts[l] EXCEPT !.path = Path(prompts[l].tokens, merged)]
                       ELSE prompts[l]]
\* The tokens of a node, and the MaxNodes nodes that are shown: the most
\* frequent ones, of equal ones the first.  Every other node has no entry.
Places(prompts) == {<<p, i>> \in (1..Len(Lines)) \X (1..MaxTokens) :
                       Active(prompts, Lines[p]) /\ i \in DOMAIN prompts[Lines[p]].path}
IdAtPlace(prompts, a) == prompts[Lines[a[1]]].path[a[2]]
NodePlaces(prompts, id) == {a \in Places(prompts) : IdAtPlace(prompts, a) = id}
Earlier(a, b) == a[1] < b[1] \/ (a[1] = b[1] /\ a[2] < b[2])
FirstPlace(prompts, id) ==
    CHOOSE a \in NodePlaces(prompts, id) : \A b \in NodePlaces(prompts, id) \ {a} : Earlier(a, b)
NodeCount(prompts, id) == Cardinality(NodePlaces(prompts, id))
AllNodes(prompts) == {id \in {IdAtPlace(prompts, a) : a \in Places(prompts)} : id[1] >= 0}
NodesOf(prompts) ==
    {id \in AllNodes(prompts) :
        Cardinality({k \in AllNodes(prompts) :
            \/ NodeCount(prompts, k) > NodeCount(prompts, id)
            \/ /\ k # id /\ NodeCount(prompts, k) = NodeCount(prompts, id)
               /\ Earlier(FirstPlace(prompts, k), FirstPlace(prompts, id))}) < MaxNodes}
NodeWord(prompts, id) ==
    LET a == FirstPlace(prompts, id) IN prompts[Lines[a[1]]].tokens[a[2]]
\* The nodes next to a node, tags and nodes that are not shown left out.
Linked(prompts, id) ==
    UNION {LET ids == SelectSeq(prompts[l].path, LAMBDA k : k \in NodesOf(prompts))
               steps == {i \in 1..Len(ids) - 1 : ids[i] # ids[i + 1]} IN
           {<<"next", ids[i + 1]>> : i \in {j \in steps : ids[j] = id}}
               \cup {<<"previous", ids[i]>> : i \in {j \in steps : ids[j + 1] = id}}
           : l \in {k \in LineIds : Active(prompts, k)}}

\* How the operations put a new text, or a new token list, into a line.
FineLine(line, text) == [line EXCEPT !.text = text, !.tokens = Fine(text)]
CoarseLine(line, text) == [line EXCEPT !.text = text, !.tokens = Coarse(text)]
Rebuilt(line, tokens) == [line EXCEPT !.text = Text(tokens), !.tokens = tokens]

\* The lines an operation with a scope works on; "all" is no scope.
InTargetsDeletedToo(prompts, l, targets) == ~ Special(l) /\ (targets = {"all"} \/ l \in targets)
InTargets(prompts, l, targets) == Active(prompts, l) /\ (targets = {"all"} \/ l \in targets)
=============================================================================
