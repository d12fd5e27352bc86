---------------------------- MODULE PromptBatch ----------------------------
(***************************************************************************)
(* Edits of many prompts at once (core/operations.py): batch text edits,   *)
(* the propagation of an edit from the focused line, Module presets, the   *)
(* renaming of a Module, references learned from their neighbours, and     *)
(* what a prompt comes to when its Modules are expanded.                   *)
(***************************************************************************)
EXTENDS PromptModules

IsAnchor(token) == ~ IsMod(token)
At(tokens, i, insert) == SubSeq(tokens, 1, i) \o insert \o SubSeq(tokens, i + 1, Len(tokens))
FirstIn(indices, other) == IF indices = {} THEN other ELSE Min(indices)

-----------------------------------------------------------------------------
(* What a prompt comes to: Modules that are switched off left out, library *)
(* references replaced by their bodies, tags dropped.                      *)

ClosedLater(tokens, i, m) == \E j \in i + 1..Len(tokens) : Kind(tokens[j]) = "close" /\ ModName(tokens[j]) = m
IsLibraryReference(tokens, i, library) ==
    /\ Kind(tokens[i]) = "open" /\ ModName(tokens[i]) \in DOMAIN library
    /\ ~ ClosedLater(tokens, i, ModName(tokens[i]))
RECURSIVE Expanded(_, _, _, _)
Expanded(tokens, library, disabled, seen) ==
    FlattenSeq([i \in DOMAIN tokens |->
        IF ~ IsLibraryReference(tokens, i, library) THEN <<tokens[i]>>
        ELSE LET m == ModName(tokens[i]) IN
             IF m \in disabled \cup seen THEN <<>>
             ELSE Expanded(Coarse(library[m].body), library, disabled, seen \cup {m})])
\* The last opening tag of that name and what was opened inside it are closed.
Popped(stack, m) ==
    LET at == {i \in DOMAIN stack : stack[i] = m} IN
    IF at = {} THEN stack ELSE SubSeq(stack, 1, Max(at) - 1)
StackAt(tokens, library) ==
    LET stack[i \in 0..Len(tokens)] ==
            IF i = 0 THEN <<>>
            ELSE CASE Kind(tokens[i]) = "close" -> Popped(stack[i - 1], ModName(tokens[i]))
                   [] Kind(tokens[i]) = "open" /\ ~ IsLibraryReference(tokens, i, library)
                        -> Append(stack[i - 1], ModName(tokens[i]))
                   [] OTHER -> stack[i - 1]
    IN  stack
ActiveTokens(tokens, library, disabled) ==
    LET stack == StackAt(tokens, library) IN
    FlattenSeq([i \in DOMAIN tokens |->
        LET t == tokens[i] IN
        CASE Kind(t) = "inline" -> IF ModName(t) \in disabled \/ Content(t) = <<>> THEN <<>>
                                   ELSE Expanded(<<<<Content(t)>>>>, library, disabled, {})
          [] IsLibraryReference(tokens, i, library) -> Expanded(<<t>>, library, disabled, {})
          [] IsStructural(t) -> <<>>
          [] OTHER -> IF Range(stack[i]) \cap disabled # {} THEN <<>> ELSE <<t>>])
WordsOf(tokens) == {a.n : a \in {b \in Range(Atoms(Text(tokens))) : b.t = "word"}}
AllModules(prompts, library) ==
    DOMAIN library \cup {ModName(t) : t \in {u \in UNION {Range(prompts[l].tokens) : l \in LineIds} : IsMod(u)}}

-----------------------------------------------------------------------------
(* Batch text edits; all of them see the text through parse_prompt.        *)

Reweighted(word, token) == <<<<Word(word, Weight(token))>>>>
MatchesAt(text, word, mode) == {i \in DOMAIN text : Matches(Coarse(text)[i], word, mode)}
RemovedWords(text, word, mode, first) ==
    LET at == MatchesAt(text, word, mode) IN
    Text(KeptOf(Coarse(text), IF first /\ at # {} THEN {Min(at)} ELSE at))
ReplacedWords(text, word, new, mode, keepWeights) ==
    Text([i \in DOMAIN text |-> CASE i \notin MatchesAt(text, word, mode) -> <<text[i]>>
                                  [] keepWeights -> Reweighted(new, <<text[i]>>)
                                  [] OTHER -> Plain(new)])
ReplacedSet(text, words, new) ==
    LET at == UNION {MatchesAt(text, w, "exact") : w \in words} IN
    IF \E w \in words : MatchesAt(text, w, "exact") = {} THEN text
    ELSE Text(At(KeptOf(Coarse(text), at), Min(at) - 1, <<Plain(new)>>))

SameBase(left, right, mode) ==
    IF mode = "contains" THEN Range(left) \subseteq Range(right) \/ Range(right) \subseteq Range(left)
                         ELSE left = right
\* Duplicates form groups around the first of them; one of each is kept.
DuplicateGroups(tokens, mode) ==
    FoldLeft(LAMBDA groups, i :
        LET fits == {g \in DOMAIN groups : \E j \in groups[g] : SameBase(Base(tokens[i]), Base(tokens[j]), mode)} IN
        IF IsStructural(tokens[i]) \/ Base(tokens[i]) = <<>> THEN groups
        ELSE IF fits = {} THEN Append(groups, {i})
        ELSE [groups EXCEPT ![Min(fits)] = @ \cup {i}],
        <<>>, [i \in DOMAIN tokens |-> i])
KeptOfGroup(tokens, group, strongest) ==
    LET best == {i \in group : \A j \in group : Weight(tokens[j]) <= Weight(tokens[i])} IN
    IF strongest THEN Min(best) ELSE Min(group)
Deduplicated(text, mode, strongest) ==
    LET tokens == Coarse(text)
        groups == DuplicateGroups(tokens, mode) IN
    Text(KeptOf(tokens, UNION {groups[g] \ {KeptOfGroup(tokens, groups[g], strongest)} : g \in DOMAIN groups}))

\* An addition after a match splits the piece the match is in.
AddedAfter(text, word, new) ==
    LET at == {i \in DOMAIN text : \E k \in DOMAIN text[i] : text[i][k].n = word} IN
    IF at = {} THEN text \o Plain(new)
    ELSE LET i == Min(at)
             k == Min({j \in DOMAIN text[i] : text[i][j].n = word})
             rest == SubSeq(text[i], k + 1, Len(text[i])) IN
         SubSeq(text, 1, i - 1) \o <<SubSeq(text[i], 1, k)>> \o Plain(new)
            \o (IF rest = <<>> THEN <<>> ELSE <<rest>>) \o SubSeq(text, i + 1, Len(text))

-----------------------------------------------------------------------------
(* Where a token goes, learned from where it stands in other lines.        *)

Nested(tokens, i, depth) ==
    CASE Kind(tokens[i]) = "close" -> Max({0, depth - 1})
      [] Kind(tokens[i]) = "open" /\ ClosedLater(tokens, i, ModName(tokens[i])) -> depth + 1
      [] OTHER -> depth
DepthAfter(tokens) ==
    LET depth[i \in 0..Len(tokens)] == IF i = 0 THEN 0 ELSE Nested(tokens, i, depth[i - 1])
    IN  depth
\* The tokens that stand in no closed Module; a closing tag ends its own.
Outside(tokens) ==
    {i \in DOMAIN tokens : DepthAfter(tokens)[IF Kind(tokens[i]) = "close" THEN i ELSE i - 1] = 0}
WithTop(tokens) == [tokens |-> tokens, top |-> Outside(tokens)]
\* How often a neighbour stands next to a token in all lines.
NextTo(line, t, step) ==
    {i \in line.top : /\ i - step \in DOMAIN line.tokens /\ line.tokens[i - step] = t
                      /\ IsAnchor(line.tokens[i])}
Occurrences(lines, t, step, neighbour) ==
    {<<l, i>> \in (DOMAIN lines) \X (1..MaxTokens) :
        i \in NextTo(lines[l], t, step) /\ lines[l].tokens[i] = neighbour}
\* The most frequent neighbour that the line has, and its first place there;
\* of equal ones any: the code takes the first in alphabetical order.
MostFrequent(count) ==
    {t \in DOMAIN count : count[t] > 0 /\ \A k \in DOMAIN count : count[k] <= count[t]}
FirstPlaceOf(line, best) ==
    IF best = {} THEN 0 ELSE Min({i \in line.top : line.tokens[i] = CHOOSE n \in best : TRUE})
BestNeighbour(lines, line, t, step) ==
    FirstPlaceOf(line, MostFrequent([n \in {line.tokens[i] : i \in line.top} |->
                                        Cardinality(Occurrences(lines, t, step, n))]))
\* How many tokens stand before the learned place; -1 is nowhere.
PlaceBy(before, after) ==
    CASE before > 0 -> before - 1
      [] before = 0 /\ after > 0 -> after
      [] OTHER -> -1
LearnedIn(lines, line, t) == PlaceBy(BestNeighbour(lines, line, t, 1), BestNeighbour(lines, line, t, -1))
LearnedPlace(prompts, tokens, t) ==
    LearnedIn([l \in {k \in LineIds : ~ prompts[k].deleted} |-> WithTop(Fine(prompts[l].text))],
              WithTop(tokens), t)
InsertedText(prompts, text, t, position, fallback) ==
    LET tokens == Fine(text)
        place == CASE position = "start" -> 0
                   [] position = "learned" -> LearnedPlace(prompts, tokens, t)
                   [] OTHER -> Len(tokens) IN
    CASE place >= 0 -> Text(At(tokens, place, <<t>>))
      [] place < 0 /\ fallback = "end" -> Text(Append(tokens, t))
      [] OTHER -> text
HasReference(text, m) == Reference(m) \in Range(Fine(text))
ApplyBulkInsert(prompts, library, m, position, fallback, targets) ==
    [l \in LineIds |->
        LET after == InsertedText(prompts, prompts[l].text, Reference(m), position, fallback) IN
        IF /\ m \in DOMAIN library /\ InTargets(prompts, l, targets)
           /\ ~ HasReference(prompts[l].text, m) /\ after # prompts[l].text
        THEN FineLine(prompts[l], after) ELSE prompts[l]]

-----------------------------------------------------------------------------

AddedText(prompts, text, edit) ==
    CASE edit.missing /\ MatchesAt(text, edit.new, "exact") # {} -> text
      [] edit.place = "start" -> Plain(edit.new) \o text
      [] edit.place = "after" -> AddedAfter(text, edit.word, edit.new)
      [] edit.place = "learned" ->
            IF Plain(edit.new) \in Range(Fine(text)) THEN text
            ELSE InsertedText(prompts, text, Plain(edit.new), "learned", "skip")
      [] OTHER -> text \o Plain(edit.new)
BatchText(prompts, text, edit) ==
    CASE edit.op = "add" -> AddedText(prompts, text, edit)
      [] edit.op = "remove" -> RemovedWords(text, edit.word, edit.mode, edit.first)
      [] edit.op = "replace" -> ReplacedWords(text, edit.word, edit.new, edit.mode, TRUE)
      [] edit.op = "replace_set" -> ReplacedSet(text, edit.words, edit.new)
      [] OTHER -> Deduplicated(text, edit.mode, edit.first)

\* The check of the batch edits compares the tags parse_prompt sees.
CoarseTags(text) == Tags(Coarse(text))
StructureChanged(before, after) == CoarseTags(before) # CoarseTags(after)
BatchLine(prompts, l, edit) ==
    LET after == BatchText(prompts, prompts[l].text, edit) IN
    IF after = prompts[l].text \/ StructureChanged(prompts[l].text, after)
    THEN prompts[l] ELSE CoarseLine(prompts[l], after)
ApplyBatch(prompts, edit, targets) ==
    [l \in LineIds |-> IF InTargets(prompts, l, targets) THEN BatchLine(prompts, l, edit) ELSE prompts[l]]
PreviewBatchUnchecked(prompts, edit, targets) ==
    {l \in LineIds : InTargets(prompts, l, targets) /\ BatchText(prompts, prompts[l].text, edit) # prompts[l].text}
PreviewBatch(prompts, edit, targets) ==
    {l \in LineIds : InTargets(prompts, l, targets) /\ BatchLine(prompts, l, edit) # prompts[l]}

-----------------------------------------------------------------------------
(* An edit of the focused line carried over to others by its context.      *)

AnchorBase(tokens, i) ==
    IF i \in DOMAIN tokens /\ IsAnchor(tokens[i]) THEN Base(tokens[i]) ELSE <<>>
FocusContext(prompts, source, selected) ==
    LET tokens == prompts[source].tokens
        at == {i \in DOMAIN tokens : /\ ~ prompts[source].deleted /\ i \in DOMAIN prompts[source].path
                                     /\ prompts[source].path[i] \in selected /\ AnchorBase(tokens, i) # <<>>}
        i == Min(at) IN
    IF at = {} THEN <<>>
    ELSE <<AnchorBase(tokens, i), AnchorBase(tokens, i - 1), AnchorBase(tokens, i + 1)>>
IndexOfBase(tokens, base) == FirstIn({i \in DOMAIN tokens : base # <<>> /\ AnchorBase(tokens, i) = base}, 0)
InsertedNear(text, new, context) ==
    LET tokens == Coarse(text)
        self == IndexOfBase(tokens, context[1])
        left == IndexOfBase(tokens, context[2])
        right == IndexOfBase(tokens, context[3]) IN
    IF IndexOfBase(tokens, Base(Plain(new))) > 0 THEN text
    ELSE Text(At(tokens, CASE self > 0 -> self [] self = 0 /\ right > 0 -> right - 1
                           [] self = 0 /\ right = 0 /\ left > 0 -> left [] OTHER -> Len(tokens), <<Plain(new)>>))
ReplacedLike(text, new, context) ==
    Text([i \in DOMAIN text |-> IF AnchorBase(Coarse(text), i) = context[1]
                                THEN Reweighted(new, <<text[i]>>) ELSE <<text[i]>>])
FocusText(text, insert, new, context) ==
    IF insert THEN InsertedNear(text, new, context) ELSE ReplacedLike(text, new, context)
FocusLine(line, insert, new, context) ==
    LET after == FocusText(line.text, insert, new, context) IN
    IF after = line.text \/ StructureChanged(line.text, after) THEN line ELSE CoarseLine(line, after)
ApplyFocus(prompts, source, selected, insert, new, targets) ==
    LET context == FocusContext(prompts, source, selected) IN
    [l \in LineIds |-> IF context # <<>> /\ InTargets(prompts, l, targets) /\ l # source
                       THEN FocusLine(prompts[l], insert, new, context) ELSE prompts[l]]
PreviewFocus(prompts, source, selected, insert, new, targets) ==
    {l \in LineIds \ {source} :
        LET context == FocusContext(prompts, source, selected) IN
        /\ context # <<>> /\ InTargets(prompts, l, targets)
        /\ FocusLine(prompts[l], insert, new, context) # prompts[l]}

-----------------------------------------------------------------------------
(* Presets: new words inside every use of a Module in the prompts.         *)

InlineToken(m, words) ==
    [i \in DOMAIN words |-> (IF i = 1 THEN <<Open(m)>> ELSE <<>>) \o <<Word(words[i], 1)>>
                            \o (IF i = Len(words) THEN <<Close(m)>> ELSE <<>>)]
WordTokens(words) == [i \in DOMAIN words |-> Plain(words[i])]
\* The closing tag of an opening one, with no other tag between the two; 0 is none.
PlainClose(tokens, i) ==
    LET tags == {j \in i + 1..Len(tokens) : IsMod(tokens[j])} IN
    IF tags # {} /\ tokens[Min(tags)] = <<<<Close(ModName(tokens[i]))>>>> THEN Min(tags) ELSE 0
Opens(tokens, m) == {i \in DOMAIN tokens : IsReference(tokens[i], m)}
Closings(tokens, m) == {i \in DOMAIN tokens : Kind(tokens[i]) = "close" /\ ModName(tokens[i]) = m}
Malformed(tokens, m) ==
    \/ \E i \in Opens(tokens, m) : PlainClose(tokens, i) = 0
    \/ \E i \in Closings(tokens, m) : \A j \in Opens(tokens, m) : PlainClose(tokens, j) # i
PresetTokens(tokens, m, words) ==
    LET inside == {i \in DOMAIN tokens : \E j \in Opens(tokens, m) : j < i /\ i < PlainClose(tokens, j)} IN
    FlattenSeq([i \in DOMAIN tokens |->
        CASE Kind(tokens[i]) = "inline" /\ ModName(tokens[i]) = m -> <<InlineToken(m, words)>>
          [] i \in Opens(tokens, m) -> <<tokens[i]>> \o WordTokens(words)
          [] i \in inside -> <<>>
          [] OTHER -> <<tokens[i]>>])
FineTags(text) == Tags(Fine(text))
PresetLine(line, m, words) ==
    LET after == Text(PresetTokens(Fine(line.text), m, words)) IN
    IF Malformed(Fine(line.text), m) \/ after = line.text \/ FineTags(after) # FineTags(line.text)
    THEN line ELSE FineLine(line, after)
ApplyPreset(prompts, m, words, targets) ==
    [l \in LineIds |-> IF InTargets(prompts, l, targets) THEN PresetLine(prompts[l], m, words) ELSE prompts[l]]
PreviewPreset(prompts, m, words, targets) ==
    {l \in LineIds : InTargets(prompts, l, targets) /\ PresetLine(prompts[l], m, words) # prompts[l]}

-----------------------------------------------------------------------------
(* A Module renamed in every line; tags that carry words are left alone.   *)

IsMalformed(token, m) ==
    /\ IsMod(token) /\ ModName(token) = m
    /\ Kind(token) # "inline" /\ Len(Atoms(token)) > 1
Renamed(token, old, new) ==
    IF ~ IsMod(token) \/ ModName(token) # old \/ IsMalformed(token, old) THEN token
    ELSE [p \in DOMAIN token |-> [a \in DOMAIN token[p] |->
            CASE token[p][a] = Open(old) -> Open(new)
              [] token[p][a] = Close(old) -> Close(new)
              [] OTHER -> token[p][a]]]
RenameModule(prompts, old, new) ==
    [l \in LineIds |->
        LET tokens == [i \in DOMAIN prompts[l].tokens |-> Renamed(prompts[l].tokens[i], old, new)] IN
        IF prompts[l].deleted \/ tokens = prompts[l].tokens THEN prompts[l] ELSE Rebuilt(prompts[l], tokens)]
PreviewRename(prompts, old) ==
    {l \in LineIds : /\ ~ prompts[l].deleted
                     /\ \E t \in Range(prompts[l].tokens) : IsMod(t) /\ ModName(t) = old /\ ~ IsMalformed(t, old)}
=============================================================================
