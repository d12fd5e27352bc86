---------------------------- MODULE PromptEditing ----------------------------
(***************************************************************************)
(* The prompt tools of the Streamlit application (app.py) over a Project:  *)
(* its lines, its Module library, its Attribute Groups and its Line        *)
(* Groups.  A tool with a preview keeps what it was called with; its Apply *)
(* button works while that is what the controls still say, on the Project  *)
(* as it then is.  Candidate references alone compare the Project too.     *)
(* Every other edit may come between a preview and its Apply.  One preview *)
(* is kept at a time here; Undo, saving and ids of lines are left out.     *)
(***************************************************************************)
EXTENDS PromptNodes

CONSTANTS StartTexts,      \* the texts a Project may start with
          StartLibrary,    \* its Modules
          StartGroups,     \* its Attribute Groups: names to words
          GlobalLibrary,   \* the Modules of the Global library
          Merged,          \* nodes are words, wherever they stand
          Names,           \* Module names a user enters
          News,            \* words a user enters
          Bodies,          \* Module bodies a user enters
          Typed,           \* texts a user types in the line editor
          BatchEdits,      \* batch edits a user enters
          Scopes,          \* scopes a user chooses
          StartLineGroups, \* its Line Groups
          LastPreview,     \* bound: how many edits come before a preview
          MaxEdits         \* bound: how many edits

VARIABLES prompts,         \* project.prompt_lines, with the graph's paths
          library,         \* project.module_library
          groups,          \* project.attribute_groups
          lineGroups,      \* project.line_groups
          review,          \* the preview in the session state
          edits            \* how many edits there were

vars == <<prompts, library, groups, lineGroups, review, edits>>

NoReview == [tool |-> "none", args |-> <<>>, targets |-> {}, lines |-> {}, held |-> <<>>, at |-> 0]
Init ==
    /\ \E texts \in StartTexts :
          prompts = Graphed([l \in LineIds |->
              [text |-> texts[l], tokens |-> IF Special(l) THEN <<>> ELSE Coarse(texts[l]),
               path |-> <<>>, deleted |-> FALSE]], Merged)
    /\ library = StartLibrary
    /\ groups = StartGroups
    /\ lineGroups = StartLineGroups
    /\ review = NoReview
    /\ edits = 0

ActiveLines == {l \in LineIds : Active(prompts, l)}
\* The tools with one list of targets name the lines of the whole Project too.
Listed(scope) == IF scope[1] = "all" THEN ActiveLines ELSE ScopeTargets(prompts, lineGroups, scope)
Scoped(scope) == ScopeTargets(prompts, lineGroups, scope)
MayScope(scope) == scope[1] = "line_group" => scope[2] \in DOMAIN lineGroups
ChosenScopes == {s \in Scopes : MayScope(s)}
Nodes == NodesOf(prompts)
Modules == AllModules(prompts, library)
EditScopes == {"none"} \cup Modules

\* push_history, the edit and the new graph.
Edited(p) ==
    /\ edits < MaxEdits
    /\ \A l \in LineIds : Len(p[l].tokens) <= MaxTokens
    /\ prompts' = Graphed(p, Merged)
    /\ edits' = edits + 1
MayPreview == edits <= LastPreview /\ review = NoReview
Reviewed(tool, args, targets, lines, held) ==
    /\ review' = [tool |-> tool, args |-> args, targets |-> targets, lines |-> lines,
                  held |-> held, at |-> edits]
    /\ UNCHANGED <<prompts, library, groups, lineGroups, edits>>
\* The Apply button: the signature still fits and some line was to change.
Confirmed(tool, targets) ==
    /\ review.tool = tool
    /\ review.targets = targets
    /\ review.lines # {}
    /\ review' = NoReview
KeepsNames == UNCHANGED <<library, groups, lineGroups>>
Changes(p) == {l \in LineIds : p[l].text # prompts[l].text}

-----------------------------------------------------------------------------
(* Batch edits, the focused line's edit carried over, presets.             *)

ReviewBatch == MayPreview /\ \E edit \in BatchEdits, scope \in ChosenScopes :
    /\ Listed(scope) # {}
    /\ Reviewed("batch", <<edit, scope>>, Listed(scope), PreviewBatch(prompts, edit, Listed(scope)), <<>>)
ApplyBatchEdit ==
    /\ review.tool = "batch"
    /\ LET targets == Listed(review.args[2]) IN
       Confirmed("batch", targets) /\ Edited(ApplyBatch(prompts, review.args[1], targets))
    /\ KeepsNames

ReviewFocus == MayPreview /\ \E source \in ActiveLines, id \in Nodes, insert \in BOOLEAN, new \in News, scope \in ChosenScopes :
    /\ id \in Range(prompts[source].path)
    /\ Scoped(scope) # {}
    /\ Reviewed("focus", <<source, id, insert, new, scope>>, Scoped(scope),
                PreviewFocus(prompts, source, {id}, insert, new, Scoped(scope)), <<>>)
ApplyFocusEdit ==
    /\ review.tool = "focus"
    /\ LET a == review.args
           targets == Scoped(a[5]) IN
       /\ a[2] \in Nodes
       /\ Confirmed("focus", targets)
       /\ Edited(ApplyFocus(prompts, a[1], {a[2]}, a[3], a[4], targets))
    /\ KeepsNames

ReviewPreset == MayPreview /\ \E m \in Modules, new \in News, scope \in ChosenScopes :
    /\ Listed(scope) # {}
    /\ Reviewed("preset", <<m, new, scope>>, Listed(scope),
                PreviewPreset(prompts, m, <<new>>, Listed(scope)), <<>>)
ApplyModulePreset ==
    /\ review.tool = "preset"
    /\ LET a == review.args IN
       /\ a[1] \in Modules
       /\ Confirmed("preset", Listed(a[3]))
       /\ Edited(ApplyPreset(prompts, a[1], <<a[2]>>, Listed(a[3])))
    /\ KeepsNames

-----------------------------------------------------------------------------
(* Swaps, references, groups.                                              *)

ReviewSwap == MayPreview /\ \E m, n \in DOMAIN library, mode \in {"strict", "loose"}, scope \in ChosenScopes :
    /\ m # n
    /\ Scoped(scope) # {}
    /\ Reviewed("swap", <<m, n, mode, scope>>, Scoped(scope),
                Changes(ApplySwap(prompts, library, m, n, Scoped(scope), mode)), <<>>)
ApplyModuleSwap ==
    /\ review.tool = "swap"
    /\ LET a == review.args IN
       /\ Confirmed("swap", Scoped(a[4]))
       /\ Edited(ApplySwap(prompts, library, a[1], a[2], Scoped(a[4]), a[3]))
    /\ KeepsNames

ReviewGroupSwap == MayPreview /\ \E g, h \in DOMAIN groups, full \in BOOLEAN, scope \in ChosenScopes :
    /\ g # h
    /\ Listed(scope) # {}
    /\ Reviewed("group_swap", <<g, h, full, scope>>, Listed(scope),
                Changes(ApplyGroupSwap(prompts, groups, g, h, Listed(scope), full)), <<>>)
ApplyAttributeSwap ==
    /\ review.tool = "group_swap"
    /\ LET a == review.args IN
       /\ {a[1], a[2]} \subseteq DOMAIN groups
       /\ Confirmed("group_swap", Listed(a[4]))
       /\ Edited(ApplyGroupSwap(prompts, groups, a[1], a[2], Listed(a[4]), a[3]))
    /\ KeepsNames

\* Words are added to the lines that hold the other words of their group; the
\* signature has those words, too.  The words of the last addition are left out.
OtherWords(g, new) == SelectSeq(groups[g], LAMBDA w : w # new)
ReviewPropagation == MayPreview /\ \E g \in DOMAIN groups, new \in News, full \in BOOLEAN, scope \in ChosenScopes :
    LET previous == OtherWords(g, new) IN
    /\ previous # <<>>
    /\ Listed(scope) # {}
    /\ Reviewed("propagate", <<g, new, full, scope>>, Listed(scope),
                Changes(ApplyPropagation(prompts, previous, <<new>>, Listed(scope), full)), previous)
ApplyPropagate ==
    /\ review.tool = "propagate"
    /\ LET a == review.args IN
       /\ a[1] \in DOMAIN groups /\ OtherWords(a[1], a[2]) = review.held
       /\ Confirmed("propagate", Listed(a[4]))
       /\ Edited(ApplyPropagation(prompts, review.held, <<a[2]>>, Listed(a[4]), a[3]))
    /\ KeepsNames

ReviewInsertReference == MayPreview /\
    \E m \in DOMAIN library, position \in {"start", "end", "learned"}, fallback \in {"skip", "end"},
       scope \in ChosenScopes :
        /\ Scoped(scope) # {}
        /\ Reviewed("insert", <<m, position, fallback, scope>>, Scoped(scope),
                    Changes(ApplyBulkInsert(prompts, library, m, position, fallback, Scoped(scope))), <<>>)
ApplyInsertReference ==
    /\ review.tool = "insert"
    /\ LET a == review.args IN
       /\ Confirmed("insert", Scoped(a[4]))
       /\ Edited(ApplyBulkInsert(prompts, library, a[1], a[2], a[3], Scoped(a[4])))
    /\ KeepsNames

-----------------------------------------------------------------------------
(* Candidate references: the plan holds the state it was made from, and    *)
(* every text it is to write.                                              *)

LineState == [l \in LineIds |-> <<prompts[l].text, prompts[l].tokens, prompts[l].deleted>>]
TextsOf(p) == [l \in LineIds |-> p[l].text]
Written(texts) ==
    [l \in LineIds |-> IF texts[l] = prompts[l].text THEN prompts[l] ELSE FineLine(prompts[l], texts[l])]

PlanStateOfRules(m) == <<LineState, library[m].core, library[m].min>>
PlanState(m) == <<LineState, RuleTokens(library[m].body), library[m].core, library[m].min>>
ReviewCandidates == MayPreview /\ \E m \in DOMAIN library :
    LET after == ApplyCandidates(prompts, library, m) IN
    Reviewed("candidates", <<m>>, {}, Changes(after), <<PlanState(m), TextsOf(after)>>)
PlanIsFresh == review.args[1] \in DOMAIN library /\ PlanState(review.args[1]) = review.held[1]
ApplyReviewedCandidates ==
    /\ review.tool = "candidates"
    /\ PlanIsFresh
    /\ Confirmed("candidates", {})
    /\ Edited(Written(review.held[2]))
    /\ KeepsNames

\* The Global library's plan holds the Modules to import, too.
ScanState(names) ==
    <<LineState, DOMAIN library, [m \in Range(names) |-> IF m \in DOMAIN library THEN <<library[m]>> ELSE <<>>]>>
ReviewDetected == MayPreview /\ \E names \in {<<m>> : m \in DOMAIN GlobalLibrary} \cup
                            {<<m, n>> : m, n \in DOMAIN GlobalLibrary} :
    LET after == ApplyDetected(prompts, GlobalLibrary, names, 1) IN
    /\ IsInjective(names)
    /\ Reviewed("detected", names, {}, Changes(after),
                <<ScanState(names), TextsOf(after), DetectedLibrary(prompts, library, GlobalLibrary, names, 1)>>)
ScanIsFresh == ScanState(review.args) = review.held[1]
ApplyReviewedDetected ==
    /\ review.tool = "detected"
    /\ ScanIsFresh
    /\ Confirmed("detected", {})
    /\ Edited(Written(review.held[2]))
    /\ library' = [m \in DOMAIN library \cup (Range(review.args) \cap DOMAIN review.held[3]) |->
                      IF m \in DOMAIN library THEN library[m] ELSE review.held[3][m]]
    /\ UNCHANGED <<groups, lineGroups>>
\* A plan that is not fresh is only taken away.
DropStalePlan ==
    /\ \/ review.tool = "candidates" /\ ~ PlanIsFresh
       \/ review.tool = "detected" /\ ~ ScanIsFresh
    /\ review' = NoReview
    /\ UNCHANGED <<prompts, library, groups, lineGroups, edits>>

-----------------------------------------------------------------------------
(* Modules made from words, put in their place, renamed.                   *)

\* What can be chosen: the Modules, and the words that stand in none.
TargetWords ==
    UNION {LET tokens == Fine(prompts[l].text) IN
           {tokens[i] : i \in {k \in DOMAIN tokens : IsAnchor(tokens[k]) /\ StackAt(tokens, library)[k] = <<>>}}
           : l \in {k \in LineIds : ~ prompts[k].deleted}}
StillTargets(words, modules) == words \subseteq TargetWords /\ modules \subseteq Modules
\* The Apply button of a creation is not disabled when no line is to change.
ReviewCreation == MayPreview /\ \E m \in Names \ Modules, body \in Bodies, word \in TargetWords \cup {<<>>}, n \in Modules \cup {"none"} :
    /\ ValidBody(m, body)
    /\ Reviewed("create", <<m, body, {word} \ {<<>>}, {n} \ {"none"}>>, {},
                PreviewCreate(prompts, library, m, body, {word} \ {<<>>}, {n} \ {"none"}), <<>>)
ApplyCreation ==
    /\ review.tool = "create"
    /\ LET a == review.args IN
       /\ StillTargets(a[3], a[4])
       /\ MayCreate(prompts, library, a[1], a[2])
       /\ review' = NoReview
       /\ Edited(ApplyCreate(prompts, library, a[1], a[2], a[3], a[4]))
       /\ library' = CreatedModule(library, a[1], a[2])
    /\ UNCHANGED <<groups, lineGroups>>

ReviewReplaceWith == MayPreview /\ \E m \in DOMAIN library, word \in TargetWords \cup {<<>>}, n \in Modules \cup {"none"} :
    /\ word # <<>> \/ n \notin {m, "none"}
    /\ Reviewed("replace_with", <<m, {word} \ {<<>>}, {n} \ {"none"}>>, {},
                PreviewReplaceWith(prompts, library, m, {word} \ {<<>>}, {n} \ {"none"}), <<>>)
ApplyReplacement ==
    /\ review.tool = "replace_with"
    /\ LET a == review.args IN
       /\ a[1] \in DOMAIN library
       /\ StillTargets(a[2], a[3])
       /\ Confirmed("replace_with", {})
       /\ Edited(ApplyReplaceWith(prompts, library, a[1], a[2], a[3]))
    /\ KeepsNames

\* Only the lines learn the new name; the library keeps the old one.
ReviewModuleRename == MayPreview /\ \E m \in Modules, n \in Names :
    /\ n \notin Modules
    /\ Reviewed("rename_module", <<m, n>>, {}, PreviewRename(prompts, m), <<>>)
ConfirmModuleRename ==
    /\ review.tool = "rename_module"
    /\ LET a == review.args IN
       /\ a[1] \in Modules /\ a[2] \notin Modules
       /\ review' = NoReview
       /\ Edited(RenameModule(prompts, a[1], a[2]))
    /\ KeepsNames

-----------------------------------------------------------------------------
(* The selected nodes: renamed, deleted, weighted, in all lines or in the  *)
(* focused one.  A selection lasts while its nodes are shown, the edit's   *)
(* Module while there is one, the focus while its line is active.          *)

FocusTargets == {{"all"}} \cup {{l} : l \in ActiveLines}
ShownWord(id) == Content(NodeWord(prompts, id))
SingleWord(content) == Len(content) = 1
Selected(ids, scope) == ids \subseteq Nodes /\ scope \in EditScopes
ReviewWordRename == MayPreview /\ \E id \in Nodes, new \in News, scope \in EditScopes, targets \in FocusTargets :
    /\ SingleWord(ShownWord(id))
    /\ new # ShownWord(id)[1].n
    /\ LET edit == [word |-> ShownWord(id)[1].n, new |-> new, mode |-> "exact",
                    keep |-> TRUE, scope |-> scope, outside |-> scope = "none"] IN
       Reviewed("rename_word", <<id, edit>>, targets, PreviewRenameWord(prompts, edit, targets), <<>>)
\* A rename keeps the lines it was previewed for.
ConfirmWordRename ==
    /\ review.tool = "rename_word"
    /\ LET edit == review.args[2] IN
       /\ Selected({review.args[1]}, edit.scope)
       /\ SingleWord(ShownWord(review.args[1])) /\ ShownWord(review.args[1])[1].n = edit.word
       /\ Confirmed("rename_word", review.targets)
       /\ Edited(RenameWord(prompts, edit, review.targets))
    /\ KeepsNames

ReviewDelete == MayPreview /\ \E id \in Nodes, scope \in EditScopes, targets \in FocusTargets :
    Reviewed("delete", <<{id}, scope>>, targets, PreviewDelete(prompts, {id}, targets, scope), <<>>)
ConfirmDelete ==
    /\ review.tool = "delete"
    /\ LET a == review.args IN
       /\ Selected(a[1], a[2])
       /\ review.targets \in FocusTargets
       /\ Confirmed("delete", review.targets)
       /\ Edited(DeleteNodes(prompts, a[1], review.targets, a[2], Merged))
    /\ KeepsNames

\* Bound: only single words are weighted.
OneWordEach(ids) ==
    \A id \in ids : \A a \in NodePlaces(prompts, id) : SingleWord(Content(prompts[Lines[a[1]]].tokens[a[2]]))
ReviewWeight == MayPreview /\ \E id \in Nodes, weight \in {1, 2}, scope \in EditScopes, targets \in FocusTargets :
    /\ OneWordEach({id})
    /\ Reviewed("weight", <<{id}, weight, scope>>, targets, PreviewWeight(prompts, {id}, targets, scope), <<>>)
ConfirmWeight ==
    /\ review.tool = "weight"
    /\ LET a == review.args IN
       /\ Selected(a[1], a[3])
       /\ OneWordEach(a[1])
       /\ review.targets \in FocusTargets
       /\ Confirmed("weight", review.targets)
       /\ Edited(ApplyWeight(prompts, a[1], a[2], review.targets, a[3]))
    /\ KeepsNames

-----------------------------------------------------------------------------
(* Edits without a preview; they leave room for the Apply of one that is   *)
(* open, and some of them drop the preview of another tool.                *)

Unreviewed(dropped) ==
    /\ review # NoReview => edits + 1 < MaxEdits
    /\ review' = IF review.tool \in dropped THEN NoReview ELSE review
MoveSelected == Unreviewed({}) /\ \E a, b \in Nodes, position \in {"before", "after"}, scope \in ChosenScopes :
    /\ a # b
    /\ Listed(scope) # {}
    /\ Edited(MoveNodes(prompts, <<a>>, b, position, Listed(scope), Merged))
    /\ KeepsNames
ConnectNodes == Unreviewed({}) /\ \E a, b \in Nodes, targets \in FocusTargets :
    /\ a # b
    /\ Edited(InsertNode(prompts, a, NodeWord(prompts, b), "after", targets, Merged))
    /\ KeepsNames
MergeAll ==
    /\ Unreviewed({})
    /\ Edited(MergeDuplicates(prompts, LineIds))
    /\ KeepsNames
MergeLine == Unreviewed({}) /\ \E l \in ActiveLines :
    /\ Edited(MergeDuplicates(prompts, {l}))
    /\ KeepsNames
SaveLine == Unreviewed({}) /\ \E l \in ActiveLines, text \in Typed :
    /\ text # prompts[l].text
    /\ Edited([prompts EXCEPT ![l] = CoarseLine(@, text)])
    /\ KeepsNames
DeleteLine == Unreviewed({}) /\ \E l \in ActiveLines :
    /\ Edited([prompts EXCEPT ![l].deleted = TRUE])
    /\ KeepsNames

\* Edits of the names the tools use; they leave the lines alone.
NamesEdited ==
    /\ edits < MaxEdits
    /\ edits' = edits + 1
    /\ UNCHANGED prompts
   
GroupLines == Unreviewed({"batch"}) /\ \E g \in DOMAIN StartLineGroups, l \in ActiveLines :
    /\ g \notin DOMAIN lineGroups
    /\ lineGroups' = CreatedLineGroup(prompts, lineGroups, g, {l})
    /\ NamesEdited /\ UNCHANGED <<library, groups>>
UngroupLines == Unreviewed({"batch"}) /\ \E g \in DOMAIN lineGroups :
    /\ lineGroups' = DeletedLineGroup(lineGroups, g)
    /\ NamesEdited /\ UNCHANGED <<library, groups>>
SaveModule == Unreviewed({"detected"}) /\ \E m \in DOMAIN library, body \in Bodies :
    /\ ValidBody(m, body)
    /\ library' = WithEntry(library, m, NormalEntry(UpdatedEntry(library, m, body)))
    /\ NamesEdited /\ UNCHANGED <<groups, lineGroups>>
SaveRules == Unreviewed({}) /\ \E m \in DOMAIN library, n \in {1, 2} :
    /\ library' = SetRules(library, m, library[m].core, n)
    /\ NamesEdited /\ UNCHANGED <<groups, lineGroups>>
CreateModule == Unreviewed({}) /\ \E m \in Names \ Modules, body \in Bodies :
    /\ ValidBody(m, body)
    /\ library' = CreatedModule(library, m, body)
    /\ NamesEdited /\ UNCHANGED <<groups, lineGroups>>
ImportModules == Unreviewed({"detected"}) /\ \E m \in DOMAIN GlobalLibrary \ DOMAIN library :
    /\ library' = Imported(library, GlobalLibrary, {m}, FALSE)
    /\ NamesEdited /\ UNCHANGED <<groups, lineGroups>>
SetGroup == Unreviewed({}) /\ \E g \in DOMAIN groups, new \in News :
    /\ groups' = [groups EXCEPT ![g] = <<new>>]
    /\ NamesEdited /\ UNCHANGED <<library, lineGroups>>
DeleteGroup == Unreviewed({}) /\ \E g \in DOMAIN groups :
    /\ groups' = [h \in DOMAIN groups \ {g} |-> groups[h]]
    /\ NamesEdited /\ UNCHANGED <<library, lineGroups>>

Next ==
    \/ ReviewBatch \/ ApplyBatchEdit \/ ReviewFocus \/ ApplyFocusEdit
    \/ ReviewPreset \/ ApplyModulePreset \/ ReviewSwap \/ ApplyModuleSwap
    \/ ReviewGroupSwap \/ ApplyAttributeSwap \/ ReviewPropagation \/ ApplyPropagate
    \/ ReviewInsertReference \/ ApplyInsertReference
    \/ ReviewCandidates \/ ApplyReviewedCandidates \/ ReviewDetected \/ ApplyReviewedDetected
    \/ DropStalePlan
    \/ ReviewCreation \/ ApplyCreation \/ ReviewReplaceWith \/ ApplyReplacement
    \/ ReviewModuleRename \/ ConfirmModuleRename
    \/ ReviewWordRename \/ ConfirmWordRename \/ ReviewDelete \/ ConfirmDelete
    \/ ReviewWeight \/ ConfirmWeight
    \/ MoveSelected \/ ConnectNodes \/ MergeAll \/ MergeLine \/ SaveLine \/ DeleteLine
    \/ GroupLines \/ UngroupLines \/ SaveModule \/ SaveRules \/ CreateModule \/ ImportModules
    \/ SetGroup \/ DeleteGroup
Spec == Init /\ [][Next]_vars

-----------------------------------------------------------------------------
(* Properties of the steps that apply a preview.                           *)

\* An edit ends a preview by its Apply, or drops it and leaves the lines alone.
Dropping ==
    /\ review.tool \in {"batch", "detected"} /\ prompts' = prompts
    /\ (lineGroups' # lineGroups \/ library' # library)
Applying == review.tool # "none" /\ review' = NoReview /\ edits' = edits + 1 /\ ~ Dropping
Rewritten == {l \in LineIds : prompts'[l].text # prompts[l].text}

\* What a preview tells is what its Apply does: with no other edit between
\* the two, it rewrites no line the preview did not name and, for a tool
\* that compares texts, each of them.  A creation whose body refers to a
\* Module is left out: its preview names no line, and its Apply replaces.
ComparesTexts == {"batch", "focus", "preset", "swap", "group_swap", "propagate", "insert",
                  "candidates", "detected", "create", "replace_with", "rename_module", "delete"}
NamesNoLine == review.tool = "create" /\ \E t \in Range(Fine(review.args[2])) : IsMod(t)
PreviewTellsTheChange == [][
    Applying /\ review.at = edits /\ ~ NamesNoLine =>
        /\ Rewritten \subseteq review.lines
        /\ review.tool \in ComparesTexts => Rewritten = review.lines]_vars

\* An Apply with a scope, stale or not, rewrites only lines of the scope that
\* was reviewed, no deleted line and no line that heads a Scene.
OnlyTargetsChange == [][
    Applying /\ review.targets # {} =>
        \A l \in Rewritten : /\ Active(prompts, l)
                             /\ review.targets # {"all"} => l \in review.targets]_vars

\* A swap of two Modules, or of two Attribute Groups, leaves every other
\* token of a line as it is, in its place among the others.
SwapTokens(lib, m) == {Key(t) : t \in Range(RuleTokens(lib[m].body)) \cup {Reference(m)}}
Swapped(args) ==
    IF review.tool = "swap" THEN SwapTokens(library, args[1]) \cup SwapTokens(library, args[2])
    ELSE Keys(GroupTokens(groups[args[1]])) \cup Keys(GroupTokens(groups[args[2]]))
Others(text, keys) == SelectSeq(Fine(text), LAMBDA t : Key(t) \notin keys)
SwapKeepsTheOthers == [][
    Applying /\ review.tool \in {"swap", "group_swap"} =>
        \A l \in Rewritten : Others(prompts'[l].text, Swapped(review.args))
                                = Others(prompts[l].text, Swapped(review.args))]_vars

\* A reference says what it replaces: when references to Modules are put
\* into lines, each line still comes to every word it came to before.  A
\* Global Module the Project has under that name is left out: the reference
\* then means the Project's Module.
Says(p, lib, l) == WordsOf(ActiveTokens(p[l].tokens, lib, {}))
NothingSaidIsLost == [][
    \/ /\ Applying /\ review.tool = "candidates"
    \/ /\ Applying /\ review.tool = "detected" /\ Range(review.args) \cap DOMAIN library = {}
    => \A l \in ActiveLines : Says(prompts, library, l) \subseteq Says(prompts', library', l)]_vars
=============================================================================
