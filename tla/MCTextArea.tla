----------------------------- MODULE MCTextArea -----------------------------
(* Moving in texts of up to five units with every kind of character, and   *)
(* short texts with a longer history, or with sending and suggestions.     *)
EXTENDS TextArea

Letter == <<"a">>
Emoji == <<"H", "L">>

MCUnit == {"a", "bs", " ", "nl", "H", "L"}
MCSuggestions == {Emoji \o Letter}

Moving == [inputs |-> {Letter, Emoji, <<" ">>, <<"bs">>},
           maxUndo |-> 0, maxLen |-> 5, maxOutside |-> 0]
Editing == [inputs |-> {Letter, Emoji}, maxUndo |-> 2, maxLen |-> 3, maxOutside |-> 0]
Sending == [inputs |-> {Letter, Emoji}, maxUndo |-> 1, maxLen |-> 3, maxOutside |-> 1]

MCScenarios == {Moving, Editing, Sending}

=============================================================================
