--------------------------- MODULE PromptModules ---------------------------
(***************************************************************************)
(* The Module library over prompts (core/operations.py): which lines match *)
(* a Module's body, how a body becomes a reference, how one Module is      *)
(* swapped for another.  A library maps names to entries: the body (a      *)
(* text), the core tokens and how many tokens a candidate line needs.      *)
(***************************************************************************)
EXTENDS PromptText

RuleTokens(body) ==
    FirstOfEach(SelectSeq(Coarse(body), LAMBDA t : ~ IsStructural(t)))
ClampMin(n, tokens) == IF tokens = <<>> THEN 0 ELSE Max({1, Min({n, Len(tokens)})})
FirstOf(tokens) == SubSeq(tokens, 1, Min({1, Len(tokens)}))

\* What every read of a library first makes of its entries.
NormalEntry(entry) ==
    LET tokens == RuleTokens(entry.body)
        core == FirstOfEach(entry.core) IN
    [entry EXCEPT !.core = IF core = <<>> THEN FirstOf(tokens) ELSE core,
                  !.min = ClampMin(entry.min, tokens)]
NormalLibrary(library) == [m \in DOMAIN library |-> NormalEntry(library[m])]
WithEntry(library, m, entry) ==
    [k \in DOMAIN library \cup {m} |-> IF k = m THEN entry ELSE library[k]]
CoreKeys(entry) == Keys(entry.core)

\* A Module is entered with its first token as core and all tokens required.
EntryOf(body) == [body |-> body, core |-> FirstOf(RuleTokens(body)), min |-> Len(RuleTokens(body)),
                  assets |-> FALSE]
UpdatedEntry(library, m, body) ==
    IF m \in DOMAIN library THEN [EntryOf(body) EXCEPT !.assets = library[m].assets]
                            ELSE EntryOf(body)
CreatedModule(library, m, body) ==
    IF m \in DOMAIN library THEN library ELSE WithEntry(library, m, EntryOf(body))
SetRules(library, m, core, least) ==
    IF m \notin DOMAIN library THEN library
    ELSE WithEntry(library, m, NormalEntry([library[m] EXCEPT !.core = core, !.min = least]))

\* Copies from another library; an entry with reference images is not overwritten.
Imported(library, source, names, overwrite) ==
    LET taken == {m \in names \cap DOMAIN source :
                     m \in DOMAIN library => overwrite /\ ~ library[m].assets} IN
    NormalLibrary([m \in DOMAIN library \cup taken |->
        IF m \in taken THEN [source[m] EXCEPT !.assets = FALSE] ELSE library[m]])

-----------------------------------------------------------------------------
(* Candidates: lines that hold a Module's words.                           *)

Stored(line) == IF line.tokens = <<>> THEN Coarse(line.text) ELSE line.tokens

IsCandidate(line, core, least, tokens) ==
    LET keys == WordKeys(line.tokens) IN
    /\ ~ line.deleted
    /\ tokens # <<>>
    /\ Keys(core) \subseteq keys
    /\ Cardinality(Keys(tokens) \cap keys) >= ClampMin(least, tokens)
Candidates(prompts, entry) ==
    {l \in LineIds : IsCandidate(prompts[l], entry.core, entry.min, RuleTokens(entry.body))}

\* The body's words give way to one reference, where the first of them was.
Refused(tokens, m) ==
    \/ \E t \in Range(tokens) : IsStructural(t)
    \/ Reference(m) \in Range(tokens)
RECURSIVE WithReference(_, _, _, _)
WithReference(tokens, m, keys, inserted) ==
    IF tokens = <<>> THEN <<>>
    ELSE IF Kind(Head(tokens)) = "none" /\ Key(Head(tokens)) \in keys
    THEN (IF inserted THEN <<>> ELSE <<Reference(m)>>) \o WithReference(Tail(tokens), m, keys, TRUE)
    ELSE <<Head(tokens)>> \o WithReference(Tail(tokens), m, keys, inserted)
CandidateText(text, m, body) ==
    IF Refused(Fine(text), m) THEN text
    ELSE Text(WithReference(Fine(text), m, Keys(RuleTokens(body)), FALSE))
ApplyCandidates(prompts, library, m) ==
    [l \in LineIds |->
        LET after == CandidateText(prompts[l].text, m, library[m].body) IN
        IF l \in Candidates(prompts, library[m]) /\ after # prompts[l].text
        THEN FineLine(prompts[l], after) ELSE prompts[l]]

\* The scan of a Global library and its chosen Modules, one after the other,
\* on texts that change under way while the scan stays what it was.
Scanned(prompts, source, m, least) ==
    LET found == {l \in LineIds : /\ ~ prompts[l].deleted
                                  /\ CoreKeys(source[m]) \subseteq WordKeys(Stored(prompts[l]))
                                  /\ Keys(RuleTokens(source[m].body)) \cap WordKeys(Stored(prompts[l])) # {}} IN
    IF RuleTokens(source[m].body) = <<>> \/ Cardinality(found) < least THEN {} ELSE found
DetectedText(text, m, body) ==
    IF Refused(Fine(text), m) THEN text
    ELSE Text(WithReference(Fine(text), m, Keys(RuleTokens(body)), FALSE))
DetectedTexts(prompts, source, names, least) ==
    FoldLeft(LAMBDA texts, m :
                [l \in LineIds |-> IF m \in DOMAIN source /\ l \in Scanned(prompts, source, m, least)
                                   THEN DetectedText(texts[l], m, source[m].body) ELSE texts[l]],
             [l \in LineIds |-> prompts[l].text], names)
ApplyDetected(prompts, source, names, least) ==
    LET texts == DetectedTexts(prompts, source, names, least) IN
    [l \in LineIds |-> IF texts[l] = prompts[l].text THEN prompts[l] ELSE FineLine(prompts[l], texts[l])]
DetectedLibrary(prompts, library, source, names, least) ==
    IF ApplyDetected(prompts, source, names, least) = prompts THEN library
    ELSE Imported(library, source, Range(names), FALSE)

-----------------------------------------------------------------------------
(* Module Swap: references first, else the words of the body.              *)

SwapsReference(tokens, source) == \E t \in Range(tokens) : IsReference(t, source)
ReferenceSwapped(tokens, source, target) ==
    LET at == {i \in DOMAIN tokens : IsReference(tokens[i], source)}
        present == \E t \in Range(tokens) : IsReference(t, target) IN
    IF \E i \in at : tokens[i] # Reference(source) THEN tokens
    ELSE FlattenSeq([i \in DOMAIN tokens |->
            CASE i \notin at -> <<tokens[i]>>
              [] i \in at /\ ~ present /\ i = Min(at) -> <<Reference(target)>>
              [] OTHER -> <<>>])

\* The words of the source, in one piece where they stand in one.
Spans(tokens, keys) ==
    {i \in DOMAIN tokens : /\ keys # <<>> /\ i + Len(keys) - 1 <= Len(tokens)
                           /\ \A k \in DOMAIN keys : /\ ~ IsStructural(tokens[i + k - 1])
                                                     /\ Key(tokens[i + k - 1]) = keys[k]}
TakenOutTooFar(tokens, source) ==
    LET keys == [k \in DOMAIN source |-> Key(source[k])]
        span == Spans(tokens, keys) IN
    IF span # {} THEN Min(span) .. Min({Min(span) + Len(keys), Len(tokens)})
    ELSE {i \in DOMAIN tokens : ~ IsStructural(tokens[i]) /\ Key(tokens[i]) \in Keys(source)}
TakenOut(tokens, source) ==
    LET keys == [k \in DOMAIN source |-> Key(source[k])]
        span == Spans(tokens, keys) IN
    IF span # {} THEN Min(span) .. Min(span) + Len(keys) - 1
    ELSE {i \in DOMAIN tokens : ~ IsStructural(tokens[i]) /\ Key(tokens[i]) \in Keys(source)}
KeptOf(tokens, out) == FlattenSeq([i \in DOMAIN tokens |-> IF i \in out THEN <<>> ELSE <<tokens[i]>>])
Missing(insert, kept) == FirstOfEach(SelectSeq(insert, LAMBDA t : Key(t) \notin WordKeys(kept)))
BodySwapped(tokens, source, target, core, mode) ==
    LET out == TakenOut(tokens, source)
        kept == KeptOf(tokens, out)
        at == Min(out) - 1 IN
    IF \/ Keys(source) \cap WordKeys(tokens) = {}
       \/ (mode = "strict" /\ ~ (Keys(core) \subseteq WordKeys(tokens))) THEN tokens
    ELSE SubSeq(kept, 1, at) \o Missing(target, kept) \o SubSeq(kept, at + 1, Len(kept))
SwapText(text, library, source, target, mode) ==
    LET tokens == Fine(text) IN
    Text(IF SwapsReference(tokens, source) THEN ReferenceSwapped(tokens, source, target)
         ELSE BodySwapped(tokens, RuleTokens(library[source].body), RuleTokens(library[target].body),
                          library[source].core, mode))
ApplySwap(prompts, library, source, target, targets, mode) ==
    [l \in LineIds |->
        LET after == SwapText(prompts[l].text, library, source, target, mode) IN
        IF /\ source # target /\ {source, target} \subseteq DOMAIN library
           /\ RuleTokens(library[source].body) # <<>> /\ RuleTokens(library[target].body) # <<>>
           /\ InTargets(prompts, l, targets) /\ after # prompts[l].text
        THEN FineLine(prompts[l], after) ELSE prompts[l]]

-----------------------------------------------------------------------------
(* Attribute Groups: a swap replaces the words of one group by another's,  *)
(* a propagation adds words to the lines that hold a group.                *)

GroupTokens(words) == FirstOfEach([i \in DOMAIN words |-> Plain(words[i])])
Holds(tokens, words, full) ==
    IF full THEN words # <<>> /\ Keys(words) \subseteq Keys(tokens) ELSE Keys(words) \cap Keys(tokens) # {}
Without(words, others) == SelectSeq(words, LAMBDA t : Key(t) \notin Keys(others))
GroupSwapped(tokens, from, to, full) ==
    LET leaving == Without(from, to)
        joining == Without(Without(to, from), tokens)
        out == {i \in DOMAIN tokens : Key(tokens[i]) \in Keys(leaving)} IN
    IF out = {} \/ (full /\ ~ Holds(tokens, from, TRUE)) THEN tokens
    ELSE FlattenSeq([i \in DOMAIN tokens |-> CASE i \notin out -> <<tokens[i]>>
                                               [] i = Min(out) -> joining
                                               [] OTHER -> <<>>])
SwapLineText(text, from, to, full) == Text(GroupSwapped(Fine(text), from, to, full))
ApplyGroupSwap(prompts, groups, from, to, targets, full) ==
    LET fromTokens == GroupTokens(groups[from]) toTokens == GroupTokens(groups[to]) IN
    [l \in LineIds |->
        LET after == SwapLineText(prompts[l].text, fromTokens, toTokens, full) IN
        IF from # to /\ InTargets(prompts, l, targets) /\ after # prompts[l].text
        THEN FineLine(prompts[l], after) ELSE prompts[l]]
PropagatedText(text, previous, added, full) ==
    LET tokens == Fine(text) IN
    IF Holds(tokens, previous, full) THEN Text(tokens \o Without(added, tokens)) ELSE text
ApplyPropagation(prompts, previous, added, targets, full) ==
    [l \in LineIds |->
        LET after == PropagatedText(prompts[l].text, GroupTokens(previous),
                                    Without(GroupTokens(added), GroupTokens(previous)), full) IN
        IF InTargets(prompts, l, targets) /\ after # prompts[l].text
        THEN FineLine(prompts[l], after) ELSE prompts[l]]

-----------------------------------------------------------------------------
(* Line Groups and Scenes as scopes.                                       *)

SceneOf(prompts, l) ==
    LET at == CHOOSE i \in DOMAIN Lines : Lines[i] = l
        heads == {i \in 1..at : Lines[i] \in Separators /\ ~ prompts[Lines[i]].deleted} IN
    IF heads = {} THEN "none" ELSE Lines[Max(heads)]
SceneLines(prompts, scene) ==
    {l \in LineIds : /\ ~ prompts[l].deleted /\ ~ Special(l)
                     /\ SceneOf(prompts, l) = scene}
SceneOptions(prompts) == {l \in Separators : ~ prompts[l].deleted}
LineGroupIds(prompts, groups, g) ==
    {l \in LineIds : g \in DOMAIN groups /\ l \in groups[g] /\ Active(prompts, l)}
ScopeTargets(prompts, groups, scope) ==
    CASE scope[1] = "all" -> {"all"}
      [] scope[1] = "line_group" -> LineGroupIds(prompts, groups, scope[2])
      [] OTHER -> SceneLines(prompts, scope[2])
CreatedLineGroup(prompts, groups, g, chosen) ==
    IF g \in DOMAIN groups THEN groups
    ELSE [k \in DOMAIN groups \cup {g} |-> IF k = g THEN {l \in chosen : ~ prompts[l].deleted} ELSE groups[k]]
DeletedLineGroup(groups, g) == [k \in DOMAIN groups \ {g} |-> groups[k]]
=============================================================================
