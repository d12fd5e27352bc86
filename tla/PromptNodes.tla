---------------------------- MODULE PromptNodes ----------------------------
(***************************************************************************)
(* Edits of tokens through the graph (core/operations.py): a word renamed  *)
(* everywhere, nodes deleted, weighted, inserted and moved, duplicates     *)
(* merged, and words replaced by a Module.  They work on the tokens a line *)
(* has and put the text together from them.                                *)
(***************************************************************************)
EXTENDS PromptBatch

\* An empty choice of lines is no scope here; separators have no tokens.
InScope(prompts, l, targets) ==
    ~ prompts[l].deleted /\ (targets \in {{}, {"all"}} \/ l \in targets)
IdAt(line, i) == IF i \in DOMAIN line.path THEN line.path[i] ELSE <<-2, <<>>>>

\* The Modules open at a token as these operations count them: a tag that
\* refers to the library opens one like any other.
OpenAt(tokens) ==
    LET stack[i \in 0..Len(tokens)] ==
            IF i = 0 THEN <<>>
            ELSE CASE Kind(tokens[i]) = "close" -> Popped(stack[i - 1], ModName(tokens[i]))
                   [] Kind(tokens[i]) = "open" -> Append(stack[i - 1], ModName(tokens[i]))
                   [] OTHER -> stack[i - 1]
    IN  stack
MatchingTokens(tokens, word, mode, outside) ==
    {i \in DOMAIN tokens : /\ Matches(tokens[i], word, mode)
                           /\ outside => IsAnchor(tokens[i]) /\ OpenAt(tokens)[i] = <<>>}
SafeInline(token) == Kind(token) = "inline" /\ Len(Content(token)) = 1
InModule(tokens, i, scope) ==
    \/ SafeInline(tokens[i]) /\ ModName(tokens[i]) = scope
    \/ IsAnchor(tokens[i]) /\ scope \in Range(OpenAt(tokens)[i])
ScopedTokens(tokens, word, mode, scope) ==
    {i \in DOMAIN tokens : InModule(tokens, i, scope) /\ Matches(tokens[i], word, mode)}
ScopedNodes(line, ids, scope) ==
    {i \in DOMAIN line.tokens : InModule(line.tokens, i, scope) /\ IdAt(line, i) \in ids}
InlineOf(m, word) == <<<<Open(m), word, Close(m)>>>>
EmptyInline(m) == <<<<Open(m), Close(m)>>>>

\* Inside its Module a word keeps its tag; elsewhere an inline Module gives way to the word.
RenamedIn(token, new, keep, scoped) ==
    LET word == Word(new, IF keep THEN Weight(token) ELSE 1) IN
    IF scoped /\ Kind(token) = "inline" THEN InlineOf(ModName(token), word) ELSE <<<<word>>>>
RenameTargets(line, edit) ==
    IF edit.scope # "none" THEN ScopedTokens(line.tokens, edit.word, edit.mode, edit.scope)
                           ELSE MatchingTokens(line.tokens, edit.word, edit.mode, edit.outside)
RenameWord(prompts, edit, targets) ==
    [l \in LineIds |->
        LET line == prompts[l]
            at == RenameTargets(line, edit) IN
        IF ~ InScope(prompts, l, targets) \/ at = {} THEN line
        ELSE Rebuilt(line, [i \in DOMAIN line.tokens |->
                IF i \in at THEN RenamedIn(line.tokens[i], edit.new, edit.keep, edit.scope # "none")
                            ELSE line.tokens[i]])]
PreviewRenameWord(prompts, edit, targets) ==
    {l \in LineIds : InScope(prompts, l, targets) /\ RenameTargets(prompts[l], edit) # {}}

-----------------------------------------------------------------------------
(* Nodes: every token of the chosen ids in the chosen lines.               *)

NodesAt(line, ids) == {i \in DOMAIN line.tokens : IdAt(line, i) \in ids}
DeletedFrom(line, ids, scope) ==
    IF scope = "none" THEN KeptOf(line.tokens, NodesAt(line, ids))
    ELSE FlattenSeq([i \in DOMAIN line.tokens |->
            CASE i \notin ScopedNodes(line, ids, scope) -> <<line.tokens[i]>>
              [] Kind(line.tokens[i]) = "inline" -> <<EmptyInline(scope)>>
              [] OTHER -> <<>>])
DeletesIn(line, ids, scope) == IF scope = "none" THEN NodesAt(line, ids) ELSE ScopedNodes(line, ids, scope)
DeleteNodes(prompts, ids, targets, scope, merged) ==
    Graphed([l \in LineIds |->
        IF InScope(prompts, l, targets) /\ DeletesIn(prompts[l], ids, scope) # {}
        THEN Rebuilt(prompts[l], DeletedFrom(prompts[l], ids, scope)) ELSE prompts[l]], merged)
PreviewDelete(prompts, ids, targets, scope) ==
    {l \in LineIds : InScope(prompts, l, targets) /\ DeletesIn(prompts[l], ids, scope) # {}}

InsertNode(prompts, id, token, position, targets, merged) ==
    Graphed([l \in LineIds |->
        IF InScope(prompts, l, targets) /\ NodesAt(prompts[l], {id}) # {}
        THEN Rebuilt(prompts[l], FlattenSeq([i \in DOMAIN prompts[l].tokens |->
                CASE IdAt(prompts[l], i) # id -> <<prompts[l].tokens[i]>>
                  [] IdAt(prompts[l], i) = id /\ position = "before" -> <<token, prompts[l].tokens[i]>>
                  [] OTHER -> <<prompts[l].tokens[i], token>>]))
        ELSE prompts[l]], merged)
\* The nodes are taken out, and put back where the target still is.
MoveNodes(prompts, ids, target, position, targets, merged) ==
    LET words == [k \in DOMAIN ids |-> NodeWord(prompts, ids[k])]
        inserted == IF position = "after" THEN Reverse(words) ELSE words
        without == DeleteNodes(prompts, Range(ids), targets, "none", merged) IN
    IF target \notin NodesOf(without) THEN without
    ELSE FoldLeft(LAMBDA p, w : InsertNode(p, target, w, position, targets, merged), without, inserted)

\* A weight is given to a word: through the nodes inside a Module, else to
\* every token of that word, and an inline Module gives way to the word.
Weighted(token, weight, scoped) ==
    LET word == Word(Content(token)[1].n, weight) IN
    IF scoped /\ Kind(token) = "inline" THEN InlineOf(ModName(token), word) ELSE <<<<word>>>>
WeightTargets(prompts, line, ids, scope) ==
    IF scope # "none" THEN ScopedNodes(line, ids, scope)
    ELSE {i \in DOMAIN line.tokens : \E id \in ids \cap NodesOf(prompts) :
            Base(line.tokens[i]) = Base(NodeWord(prompts, id))}
WeightLine(prompts, l, ids, weight, scope) ==
    LET line == prompts[l]
        at == WeightTargets(prompts, line, ids, scope)
        tokens == [i \in DOMAIN line.tokens |->
                      IF i \in at THEN Weighted(line.tokens[i], weight, scope # "none") ELSE line.tokens[i]] IN
    CASE tokens = line.tokens -> line
      [] tokens # line.tokens /\ scope # "none" -> Rebuilt(line, tokens)
      [] OTHER -> CoarseLine(line, Text(tokens))
ApplyWeight(prompts, ids, weight, targets, scope) ==
    [l \in LineIds |-> IF InScope(prompts, l, targets) THEN WeightLine(prompts, l, ids, weight, scope)
                       ELSE prompts[l]]
PreviewWeight(prompts, ids, targets, scope) ==
    {l \in LineIds : InScope(prompts, l, targets) /\ WeightTargets(prompts, prompts[l], ids, scope) # {}}

\* Of equal tokens in a line the one with the best score is kept, and none
\* if no score is above -1: the score of a token without a shown node, of
\* a tag for one, is only its place in the line, taken negative.
Score(prompts, line, i) ==
    1 - i + IF IdAt(line, i) \notin NodesOf(prompts) THEN 0
            ELSE 10000 * Cardinality(Linked(prompts, IdAt(line, i))) + 100 * NodeCount(prompts, IdAt(line, i))
Copies(line, i) == {j \in DOMAIN line.tokens : line.tokens[j] = line.tokens[i]}
IsBest(prompts, line, i) ==
    /\ Score(prompts, line, i) > -1
    /\ \A j \in Copies(line, i) : Score(prompts, line, j) <= Score(prompts, line, i)
MergedTokens(prompts, line) ==
    KeptOf(line.tokens, {i \in DOMAIN line.tokens : Copies(line, i) # {i} /\ ~ IsBest(prompts, line, i)})
MergeDuplicates(prompts, ls) ==
    [l \in LineIds |->
        LET kept == MergedTokens(prompts, prompts[l]) IN
        IF l \notin ls \/ prompts[l].deleted \/ kept = prompts[l].tokens THEN prompts[l]
        ELSE CoarseLine(prompts[l], Text(kept))]

-----------------------------------------------------------------------------
(* Words and Modules replaced by one reference.                            *)

PlainRange(tokens, i) == PlainClose(tokens, i) # 0
ReplaceBroken(tokens, modules, library) ==
    LET opens == {i \in DOMAIN tokens : Kind(tokens[i]) = "open" /\ ModName(tokens[i]) \in modules
                                         /\ ~ IsLibraryReference(tokens, i, library)} IN
    \/ \E i \in opens : ~ PlainRange(tokens, i)
    \/ \E i \in DOMAIN tokens : /\ Kind(tokens[i]) = "close" /\ ModName(tokens[i]) \in modules
                                /\ \A j \in opens : PlainClose(tokens, j) # i
ReplaceTokens(tokens, m, words, modules, library) ==
    LET opens == {i \in DOMAIN tokens : Kind(tokens[i]) = "open" /\ ModName(tokens[i]) \in modules}
        ranges == {i \in opens : ~ IsLibraryReference(tokens, i, library)}
        inside == {i \in DOMAIN tokens : \E j \in ranges : j < i /\ i <= PlainClose(tokens, j)} IN
    FlattenSeq([i \in DOMAIN tokens |->
        CASE i \in inside -> <<>>
          [] i \in opens -> <<Reference(m)>>
          [] Kind(tokens[i]) = "inline" /\ ModName(tokens[i]) \in modules -> <<Reference(m)>>
          [] IsAnchor(tokens[i]) /\ StackAt(tokens, library)[i] = <<>> /\ tokens[i] \in words -> <<Reference(m)>>
          [] OTHER -> <<tokens[i]>>])
ReplaceLine(line, m, words, modules, library) ==
    LET tokens == Fine(line.text)
        after == Text(ReplaceTokens(tokens, m, words, modules, library)) IN
    IF line.deleted \/ ReplaceBroken(tokens, modules, library) \/ after = line.text
    THEN line ELSE FineLine(line, after)
\* A body may refer to other Modules, but neither to its own nor to a range.
ValidBody(m, body) ==
    \A i \in DOMAIN Fine(body) : IsMod(Fine(body)[i]) =>
        Kind(Fine(body)[i]) = "open" /\ ModName(Fine(body)[i]) # m /\ ~ ClosedLater(Fine(body), i, ModName(Fine(body)[i]))
MayCreate(prompts, library, m, body) == ValidBody(m, body) /\ m \notin AllModules(prompts, library)
ApplyCreate(prompts, library, m, body, words, modules) ==
    [l \in LineIds |-> IF MayCreate(prompts, library, m, body)
                       THEN ReplaceLine(prompts[l], m, words, modules, library) ELSE prompts[l]]
PreviewCreate(prompts, library, m, body, words, modules) ==
    {l \in LineIds : /\ \A t \in Range(Fine(body)) : ~ IsMod(t)
                     /\ ReplaceLine(prompts[l], m, words, modules, library) # prompts[l]}
ApplyReplaceWith(prompts, library, m, words, modules) ==
    [l \in LineIds |-> IF m \in DOMAIN library
                       THEN ReplaceLine(prompts[l], m, words, modules \ {m}, library) ELSE prompts[l]]
PreviewReplaceWith(prompts, library, m, words, modules) ==
    {l \in LineIds : m \in DOMAIN library /\ ReplaceLine(prompts[l], m, words, modules \ {m}, library) # prompts[l]}
=============================================================================
