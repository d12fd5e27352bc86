-------------------------- MODULE MCPromptEditing --------------------------
(* PromptEditing for TLC: three lines under one Scene, few words. *)
EXTENDS PromptEditing

W(n) == <<Word(n, 1)>>
Order == <<"scene", "a", "b">>
Texts == {
    "scene" :> <<W("label")>>
        @@ "a" :> <<<<Open("N")>>, W("x"), <<Close("N")>>, <<Word("y", 2)>>>>
        @@ "b" :> <<<<Open("M")>>, <<Open("N"), Word("x", 1)>>, <<Word("y", 1), Close("N")>>, W("y")>>,
    "scene" :> <<W("x")>>
        @@ "a" :> <<W("x"), W("y"), W("z")>>
        @@ "b" :> <<<<Open("N"), Word("y", 1), Close("N")>>, W("x"), <<Open("L")>>>>}
Saved == "M" :> NormalEntry(EntryOf(<<W("x"), W("y")>>)) @@ "L" :> NormalEntry(EntryOf(<<W("z"), <<Open("M")>>>>))
Shared == "G" :> NormalEntry(EntryOf(<<W("y")>>)) @@ "M" :> NormalEntry(EntryOf(<<W("x"), W("z")>>))
Sets == "p" :> <<"x">> @@ "q" :> <<"z", "y">>
Entered == {<<W("x"), W("z")>>, <<<<Open("L")>>>>}
Lined == {<<W("z"), W("x")>>}
B(op) == [op |-> op, word |-> "x", words |-> {"x", "y"}, new |-> "z", mode |-> "exact", first |-> TRUE,
          place |-> "learned", missing |-> TRUE]
Batch == {[B("add") EXCEPT !.place = "after"], B("add"), [B("remove") EXCEPT !.mode = "contains"],
          B("replace"), B("replace_set"), B("duplicates")}
Ranges == {<<"all">>, <<"line_group", "lines">>}
Grouped == "lines" :> {"a"}
============================================================================
