------------------------------ MODULE TextArea ------------------------------
(***************************************************************************)
(* The message editor of the terminal UI: TextArea with its cursor and its *)
(* undo and redo stacks, inside ThreadView, which owns the draft, clears   *)
(* it when a message is submitted and puts it back when sending fails.     *)
(*                                                                         *)
(* A text is a sequence of UTF-16 units and a position counts units, as in *)
(* JavaScript: position p lies between text[p] and text[p+1].  "H" "L" is  *)
(* a character of two units (an emoji); every other unit is a character.   *)
(* Ink flushes React's state before it handles the next key, so that a key *)
(* is one step.                                                            *)
(***************************************************************************)
EXTENDS Integers, Sequences, FiniteSetsExt

CONSTANTS
  Unit,         \* the units texts are made of
  Suggestions,  \* texts Claude suggests
  Scenarios     \* records [inputs, maxUndo, maxLen, maxOutside]: what a key
                \* press or a paste inserts, after cleaning; the limit of the
                \* undo stack (the code has 200); and two bounds, the units in
                \* the text and the changes of the draft from outside

(* A terminal sends whole characters. *)
WellFormed(s) == \A i \in 1..Len(s) :
  /\ s[i] = "H" => i < Len(s) /\ s[i + 1] = "L"
  /\ s[i] = "L" => i > 1 /\ s[i - 1] = "H"

ASSUME TextAreaAssumption ==
  /\ "nl" \in Unit /\ Suggestions \subseteq Seq(Unit)
  /\ \A s \in Scenarios :
       /\ s.maxUndo \in Nat /\ s.maxLen \in Nat /\ s.maxOutside \in Nat
       /\ \A x \in s.inputs : x \in Seq(Unit) /\ WellFormed(x)

VARIABLES
  scenario,     \* one of them
  text,         \* ThreadView's draft
  cursor,       \* a position; the parent may shorten the text under it
  undo, redo,   \* stacks of [value, cursor], top last
  sending,      \* submitted texts that are not yet answered
  outside

editorVars == <<scenario, text, cursor, undo, redo, sending, outside>>

White == {" ", "nl"}

Before(s, p) == SubSeq(s, 1, Min({p, Len(s)}))
After(s, p) == SubSeq(s, p + 1, Len(s))

-----------------------------------------------------------------------------
(* Positions *)

Stops(s) == {p \in 0..Len(s) : ~(p \in 1..(Len(s) - 1) /\ s[p] = "H" /\ s[p + 1] = "L")}

SnapPos(s, p) == Max({q \in Stops(s) : q <= Max({0, p})})

(* Mutant of PrevPos: one unit back. *)
PrevUnit(s, p) == Max({0, p - 1})

PrevPos(s, p) == Max({0} \union {q \in Stops(s) : q < SnapPos(s, p)})

NextPos(s, p) == Min({Len(s)} \union {q \in Stops(s) : q > SnapPos(s, p)})

(* Back over white space, then to the start of the word. *)
WordLeft(s, p) ==
  LET last == Max({0} \union {i \in 0..(SnapPos(s, p) - 1) : s[i + 1] \notin White})
  IN  Max({i \in 0..last : i = 0 \/ s[i] \in White})

(* To the end of the word, then over the white space that follows. *)
WordRight(s, p) ==
  LET end == Min({i \in SnapPos(s, p)..Len(s) : i = Len(s) \/ s[i + 1] \in White})
  IN  Min({i \in end..Len(s) : i = Len(s) \/ s[i + 1] \notin White})

LineStartBefore(s, p) ==
  Max({0} \union {i \in 1..Min({Len(s), Max({1, p})}) : s[i] = "nl"})

LineEndAt(s, p) == Min({Len(s)} \union {i \in p..(Len(s) - 1) : s[i + 1] = "nl"})

MoveUp(s, p) ==
  LET start     == LineStartBefore(s, p)
      prevStart == LineStartBefore(s, start - 1)
  IN  IF start = 0 THEN p
      ELSE prevStart + Min({p - start, start - 1 - prevStart})

(* Mutant of MoveDown: the next line is taken to start at the newline. *)
MoveDownShort(s, p) ==
  LET end  == LineEndAt(s, p)
      next == LineEndAt(s, end + 1) - end
  IN  IF end = Len(s) THEN p
      ELSE end + Min({p - LineStartBefore(s, p), next})

MoveDown(s, p) ==
  LET end  == LineEndAt(s, p)
      next == LineEndAt(s, end + 1) - (end + 1)
  IN  IF end = Len(s) THEN p
      ELSE end + 1 + Min({p - LineStartBefore(s, p), next})

-----------------------------------------------------------------------------
EditorInit ==
  /\ scenario \in Scenarios
  /\ text = <<>> /\ cursor = 0
  /\ undo = <<>> /\ redo = <<>>
  /\ sending = {} /\ outside = 0

Entry == [value |-> text, cursor |-> cursor]

(* A full stack loses its oldest entry. *)
Remember(stack, e) ==
  LET pushed == Append(stack, e)
  IN  IF Len(pushed) > scenario.maxUndo THEN Tail(pushed) ELSE pushed

(* commit() of a key that edits. *)
Commit(next, at) ==
  /\ Len(next) <= scenario.maxLen
  /\ text' = next
  /\ cursor' = SnapPos(next, at)
  /\ IF next # text THEN undo' = Remember(undo, Entry) /\ redo' = <<>>
                    ELSE UNCHANGED <<undo, redo>>
  /\ UNCHANGED <<scenario, sending, outside>>

(* commit() of a key that only moves the cursor. *)
MoveTo(at) ==
  /\ cursor' = SnapPos(text, at)
  /\ UNCHANGED <<scenario, text, undo, redo, sending, outside>>

Insert == \E x \in scenario.inputs :
  Commit(Before(text, cursor) \o x \o After(text, cursor), cursor + Len(x))

AfterBackslash == cursor \in 1..Len(text) /\ text[cursor] = "bs"

(* Shift+Enter, or Enter after a backslash, which the newline replaces. *)
Newline ==
  \/ Commit(Before(text, cursor) \o <<"nl">> \o After(text, cursor), cursor + 1)
  \/ /\ AfterBackslash
     /\ Commit(Before(text, cursor - 1) \o <<"nl">> \o After(text, cursor), cursor)

(* Enter: ThreadView takes a text that is not blank and clears the draft.  *)
(* The stacks and the cursor stay as they are.                             *)
Submit ==
  /\ ~AfterBackslash
  /\ \E i \in 1..Len(text) : text[i] \notin White
  /\ outside < scenario.maxOutside
  /\ sending' = sending \union {text}
  /\ text' = <<>>
  /\ outside' = outside + 1
  /\ UNCHANGED <<scenario, cursor, undo, redo>>

Sent(value) ==
  /\ sending' = sending \ {value}
  /\ UNCHANGED <<scenario, text, cursor, undo, redo, outside>>

(* The draft is restored, over whatever has been typed in the meantime. *)
SendFails(value) ==
  /\ sending' = sending \ {value}
  /\ text' = value
  /\ UNCHANGED <<scenario, cursor, undo, redo, outside>>

(* Tab accepts Claude's suggestion. *)
Accept ==
  /\ outside < scenario.maxOutside
  /\ text' \in Suggestions
  /\ outside' = outside + 1
  /\ UNCHANGED <<scenario, cursor, undo, redo, sending>>

Answered == \E value \in sending : Sent(value) \/ SendFails(value)

DeleteFrom(t) == cursor > 0 /\ Commit(Before(text, t) \o After(text, cursor), t)

Backspace == DeleteFrom(PrevPos(text, cursor))
DeleteWord == DeleteFrom(WordLeft(text, cursor))
KillToStart == Commit(After(text, cursor), 0)
KillToEnd == Commit(Before(text, cursor), cursor)

LeftArrow == MoveTo(PrevPos(text, cursor)) \/ MoveTo(WordLeft(text, cursor))
RightArrow == MoveTo(NextPos(text, cursor)) \/ MoveTo(WordRight(text, cursor))
UpArrow == MoveTo(MoveUp(text, cursor))
DownArrow == MoveTo(MoveDown(text, cursor))
LineStart == MoveTo(LineStartBefore(text, cursor))
LineEnd == MoveTo(LineEndAt(text, cursor))

(* Mutant of Kept: what is on the screen is not kept. *)
KeptNot(to) == to

(* swap() moves what is on the screen to the other stack ... *)
Kept(to) == Append(to, Entry)

(* ... and shows the top of the stack `from'. *)
Pop(from) ==
  LET e == from[Len(from)]
  IN  /\ text' = e.value
      /\ cursor' = SnapPos(e.value, e.cursor)
      /\ UNCHANGED <<scenario, sending, outside>>

Undo ==
  /\ undo # <<>>
  /\ Pop(undo)
  /\ undo' = SubSeq(undo, 1, Len(undo) - 1)
  /\ redo' = Kept(redo)

Redo ==
  /\ redo # <<>>
  /\ Pop(redo)
  /\ redo' = SubSeq(redo, 1, Len(redo) - 1)
  /\ undo' = Kept(undo)

Edit == Insert \/ Newline \/ Backspace \/ DeleteWord \/ KillToStart \/ KillToEnd
Move == LeftArrow \/ RightArrow \/ UpArrow \/ DownArrow \/ LineStart \/ LineEnd
EditorNext == Edit \/ Move \/ Undo \/ Redo \/ Submit \/ Answered \/ Accept

EditorSpec == EditorInit /\ [][EditorNext]_editorVars

-----------------------------------------------------------------------------
(* What is expected of it *)

Values(stack) == [i \in DOMAIN stack |-> stack[i].value]

(* The texts undo and redo lead to, in the order they were typed. *)
Timeline == Values(undo) \o <<text>> \o [i \in DOMAIN redo |-> redo[Len(redo) + 1 - i].value]

(* Not a change of the draft from outside. *)
ByKey == UNCHANGED <<sending, outside>>

(* No key cuts a character in two or leaves the cursor inside one, though  *)
(* words, lines and columns are counted in units (text-area.tsx:94-139).   *)
(* Premise: the cursor was between two characters, which a draft set from  *)
(* outside does not guarantee.                                             *)
KeysKeepGraphemes ==
  [][ByKey /\ (\A i \in DOMAIN Timeline : WellFormed(Timeline[i])) /\ cursor \in Stops(text)
       => WellFormed(text') /\ cursor' \in Stops(text')]_editorVars

(* Rows and columns, counted from the newlines. *)
Row(s, p) == Cardinality({i \in 1..p : s[i] = "nl"})
InRow(s, r) == {q \in 0..Len(s) : Row(s, q) = r}
Column(s, p) == p - Min(InRow(s, Row(s, p)))

(* The place in row r nearest to p's column. *)
Beside(s, p, r) == SnapPos(s, Max({q \in InRow(s, r) : Column(s, q) <= Column(s, p)}))

(* The arrow keys move by one line and keep the column as far as the line  *)
(* reaches; Ctrl+A and Ctrl+E go to the ends of the line the cursor is on  *)
(* (text-area.tsx:108-139, 255-264).  Premise: the cursor is in the text,  *)
(* and not at the start of a text that begins with an empty line.          *)
LineKeys ==
  [][~(cursor = 0 /\ text # <<>> /\ text[1] = "nl") /\ cursor \in Stops(text) =>
       LET r == Row(text, cursor)
           rows == Row(text, Len(text))
       IN  /\ UpArrow => cursor' = IF r = 0 THEN cursor ELSE Beside(text, cursor, r - 1)
           /\ DownArrow => cursor' = IF r = rows THEN cursor ELSE Beside(text, cursor, r + 1)
           /\ LineStart => cursor' = Min(InRow(text, r))
           /\ LineEnd => cursor' = Max(InRow(text, r))]_editorVars

(* No key makes a text unreachable that undo led to: it stays on the       *)
(* timeline, except for the oldest one of a full stack, and the texts redo *)
(* led to when something else is typed (text-area.tsx:189-216).            *)
NothingUndoneIsLost ==
  [][ByKey => LET past == Values(undo) \o <<text>>
                  kept == IF Len(undo) = scenario.maxUndo THEN Tail(past) ELSE past
              IN  \/ Timeline' = Timeline
                  \/ Before(Timeline', Len(kept)) = kept]_editorVars

=============================================================================
