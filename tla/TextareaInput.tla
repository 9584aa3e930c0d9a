---------------------------- MODULE TextareaInput ----------------------------
(***************************************************************************)
(* How what is typed gets into the query editor (CodeMirror 5.19): through *)
(* a hidden text area.  When something is selected it is in the area, and  *)
(* selected there; otherwise the area holds what was typed lately.  The    *)
(* area is read after an event or by a timer, and what is new in it, with  *)
(* regard to what was seen of it before (prev), goes into the document.    *)
(* For the context menu the area is brought under the mouse, with a        *)
(* character of no width in it, by which one can see that all was          *)
(* selected.                                                               *)
(*                                                                         *)
(* The document is a sequence of characters, line ends among them, and a   *)
(* position an offset.  There is one range of selection.  Browsers change  *)
(* the area and tell of it at once.  Texts over 1000 characters are left   *)
(* out.                                                                    *)
(***************************************************************************)
EXTENDS Integers, SequencesExt

CONSTANTS
  Key,       \* characters that are typed
  MaxField,  \* bound: characters of the document
  MaxArea    \* bound: characters in the area

VARIABLES
  field   \* the document, the area and what the editor keeps of it

LineEnd == "line end"
ZeroWidth == "of no width"
Space == "space"

\* Line ends come from a bound key, and characters of no width are not typed.
ASSUME FieldAssumption ==
  /\ MaxField \in Nat /\ MaxArea \in Nat
  /\ LineEnd \notin Key /\ ZeroWidth \notin Key

NotCopied == [lineWise |-> FALSE, text |-> <<>>]

Selects(f) == f.from # f.to
SelectedText(f) == SubSeq(f.text, f.from + 1, f.to)
BeginOf(text, p) ==
  CHOOSE b \in 0..p : /\ b = 0 \/ text[b] = LineEnd
                      /\ \A i \in b + 1..p : text[i] # LineEnd
EndOf(text, p) ==
  CHOOSE e \in p..Len(text) : /\ e = Len(text) \/ text[e + 1] = LineEnd
                              /\ \A i \in p + 1..e : text[i] # LineEnd
Put(text, from, to, new) ==
  SubSeq(text, 1, from) \o new \o SubSeq(text, to + 1, Len(text))

\* The area: nothing in it, all of it, or all but its first character selected.
HasSelection(f) ==
  f.area # <<>> /\ (f.marked = "all" \/ (f.marked = "rest" /\ Len(f.area) > 1))
Entered(f, new) ==
  [f EXCEPT !.area = IF f.marked = "all" THEN new
                     ELSE IF f.marked = "rest" THEN <<Head(f.area)>> \o new
                     ELSE @ \o new,
            !.marked = "none"]

-----------------------------------------------------------------------------
\* Mutant: what was seen of the area is kept when it is emptied.
ResetKeeping(f, typing) ==
  IF f.menu = "pending" THEN f
  ELSE IF Selects(f)
  THEN [f EXCEPT !.prev = <<>>, !.area = SelectedText(f),
                 !.marked = IF f.focused THEN "all" ELSE "none"]
  ELSE IF typing THEN f
  ELSE [f EXCEPT !.area = <<>>, !.marked = "none"]

\* reset
Reset(f, typing) ==
  IF f.menu = "pending" THEN f
  ELSE IF Selects(f)
  THEN [f EXCEPT !.prev = <<>>, !.area = SelectedText(f),
                 !.marked = IF f.focused THEN "all" ELSE "none"]
  ELSE IF typing THEN f
  ELSE [f EXCEPT !.prev = <<>>, !.area = <<>>, !.marked = "none"]

\* What goes in is a line that was copied as a whole, or reads the same.
WholeLine(f, inserted, deleted) ==
  ~Selects(f) /\ deleted = 0 /\ f.copied.lineWise /\ f.copied.text = inserted

\* applyTextInput: such a text is put before the line.
\* A negative offset in a line counts from its end.
ApplyTextInput(f, inserted, deleted) ==
  LET whole == WholeLine(f, inserted, deleted)
      begin == BeginOf(f.text, f.from)
      short == EndOf(f.text, f.from) - 1
      from == IF whole THEN begin ELSE IF Selects(f) THEN f.from ELSE f.from - deleted
      kept == IF from >= begin \/ Selects(f) THEN from
              ELSE IF short < begin THEN begin ELSE short
      to == IF whole THEN from ELSE f.to
      cursor == f.to + from + Len(inserted) - to
  IN  [f EXCEPT !.text = SubSeq(@, 1, kept) \o inserted \o SubSeq(@, to + 1, Len(@)),
                !.from = cursor, !.to = cursor, !.forMenu = FALSE]

\* poll: the area after it has been read, with what was new put in.
Common(s, t) ==
  CHOOSE n \in 0..Len(s) : /\ n <= Len(t) /\ \A i \in 1..n : s[i] = t[i]
                           /\ n = Len(s) \/ n = Len(t) \/ s[n + 1] # t[n + 1]
Poll(f) ==
  LET seen == IF f.forMenu /\ f.prev = <<>> /\ f.area # <<>> /\ f.area[1] = ZeroWidth
              THEN <<ZeroWidth>> ELSE f.prev
      same == Common(seen, f.area)
      new == SubSeq(f.area, same + 1, Len(f.area))
      out == [ApplyTextInput(f, new, Len(seen) - same) EXCEPT
                !.astray = @ \/ WholeLine(f, new, Len(seen) - same)
                             \/ ZeroWidth \in ToSet(new)]
  IN  IF \/ f.menu = "pending" \/ ~f.focused \/ f.readOnly
         \/ HasSelection(f) /\ f.prev = <<>> /\ ~f.composing
         \/ f.area = f.prev /\ ~Selects(f)
      THEN f
      ELSE IF LineEnd \in ToSet(f.area)
      THEN [out EXCEPT !.area = <<>>, !.prev = <<>>, !.marked = "none"]
      ELSE [out EXCEPT !.prev = f.area]

\* fastPoll and slowPoll
FastPoll(f) == [f EXCEPT !.timer = "fast"]
SlowPoll(f) == IF f.timer \in {"fast", "missed"} THEN f ELSE [f EXCEPT !.timer = "slow"]
TimedOut(f) ==
  LET read == Poll(f)
  IN  CASE f.timer = "slow" -> [read EXCEPT !.timer = IF f.focused THEN "slow" ELSE "off"]
        [] f.timer = "fast" /\ read = f -> [f EXCEPT !.timer = "missed"]
        [] f.timer = "missed" \/ (f.timer = "fast" /\ read # f) ->
             [read EXCEPT !.timer = "slow"]

-----------------------------------------------------------------------------
\* A selection set, with the operation it is in; the area is read before a key
\* that is bound is acted on, not before a click.
Selecting(f, from, to) ==
  LET g == [f EXCEPT !.from = from, !.to = to, !.forMenu = FALSE]
  IN  IF g.focused THEN Reset(g, FALSE) ELSE g
Edited(f, from, to, new) ==
  Selecting([f EXCEPT !.text = Put(@, from, to, new)], from + Len(new), from + Len(new))

\* What the user means, whatever becomes of it.
Meant(f, new) == Put(f.text, f.from, f.to, new)

EmptyFields ==
  [text : {<<>>}, from : {0}, to : {0}, area : {<<>>}, marked : {"none"}, prev : {<<>>},
   focused : {FALSE}, composing : {FALSE}, composed : {0}, menu : {"none"},
   forMenu : {FALSE}, copied : {NotCopied}, timer : {"off"}, readOnly : BOOLEAN,
   meant : {<<>>}, astray : {FALSE}]
FieldInit == field \in EmptyFields

\* Select all was chosen in the menu and has not been found out about.
Unnoticed(f) == f.marked = "all" /\ f.prev = <<ZeroWidth>>

\* A key that is bound to nothing: onKeyPress, then the input event.
PressKey(key) ==
  /\ field.focused /\ field.menu # "pending" /\ ~field.composing
  /\ field' = [Poll(FastPoll(Entered(field, <<key>>))) EXCEPT
                 !.meant = IF field.readOnly THEN @ ELSE Meant(field, <<key>>),
                 !.astray = @ \/ Unnoticed(field)]

\* An input method: what is composed takes the place of what was composed
\* before; the first of it comes with the event that starts it.
Compose(keys) ==
  /\ field.focused /\ field.menu # "pending" /\ ~Unnoticed(field)
  /\ field.composed + Len(keys) > 0
  /\ LET kept == Len(field.area) - field.composed
         f == IF field.composing THEN [field EXCEPT !.area = SubSeq(@, 1, kept) \o keys]
              ELSE Entered([field EXCEPT !.composing = TRUE], keys)
     IN  field' = [Poll(f) EXCEPT
                     !.composed = Len(keys),
                     !.meant = IF field.readOnly THEN @
                               ELSE Put(field.text, field.from - field.composed,
                                        field.to, keys)]

StopComposing ==
  /\ field.composing
  /\ field' = [Poll(field) EXCEPT !.composing = FALSE, !.composed = 0]

\* paste
Paste(text) ==
  /\ field.focused /\ ~field.composing
  /\ field' = IF field.readOnly THEN field
              ELSE LET out == ApplyTextInput(field, text, 0)
                   IN  [out EXCEPT !.meant = out.text]

\* copy, and cut with the input event that follows: with nothing selected, of
\* the line.
CopyLine(f) ==
  LET begin == BeginOf(f.text, f.from)
      end == EndOf(f.text, f.from)
  IN  [from |-> begin, to |-> IF end < Len(f.text) THEN end + 1 ELSE end]

CopyText ==
  /\ field.focused /\ field.menu # "pending" /\ ~field.composing
  /\ LET line == CopyLine(field)
         text == SubSeq(field.text, line.from + 1, line.to)
     IN  field' = IF Selects(field)
                  THEN [field EXCEPT !.copied = [lineWise |-> FALSE, text |-> SelectedText(field)]]
                  ELSE [field EXCEPT !.copied = [lineWise |-> TRUE, text |-> text],
                                     !.prev = <<>>, !.area = text, !.marked = "all"]

CutText ==
  /\ field.focused /\ field.menu # "pending" /\ ~field.composing /\ ~field.readOnly
  /\ LET line == IF Selects(field) THEN [from |-> field.from, to |-> field.to]
                 ELSE CopyLine(field)
         f == Selecting(field, line.from, line.to)
         text == SubSeq(field.text, line.from + 1, line.to)
     IN  /\ line.from # line.to
         /\ field' = [Poll(Entered(IF Selects(field) THEN field ELSE f, <<>>)) EXCEPT
                        !.copied = [lineWise |-> ~Selects(field), text |-> text],
                        !.meant = Put(field.text, line.from, line.to, <<>>)]

\* A bound key: Enter, or Backspace.
Command(from, to, new) ==
  /\ field.focused /\ field.menu # "pending" /\ ~field.composing /\ ~field.readOnly
  /\ field' = [Edited(field, from, to, new) EXCEPT !.meant = Put(field.text, from, to, new)]
PressBackspace ==
  LET from == IF Selects(field) THEN field.from ELSE field.from - 1
  IN  from >= 0 /\ Command(from, field.to, <<>>)
PressEnter == Command(field.from, field.to, <<LineEnd>>)

\* A key that moves the cursor, or a click: what was being composed stays.
SelectText(from, to) ==
  /\ ~field.composing
  /\ field' = Selecting([field EXCEPT !.focused = TRUE,
                                      !.timer = SlowPoll(field).timer], from, to)

BlurField ==
  /\ field.focused /\ ~field.composing
  /\ field' = [field EXCEPT !.focused = FALSE]
FocusField ==
  /\ ~field.focused
  /\ LET f == [field EXCEPT !.focused = TRUE]
     IN  field' = [SlowPoll(IF f.forMenu THEN f ELSE Reset(f, FALSE)) EXCEPT
                     !.astray = @ \/ (f.forMenu /\ Selects(f) /\ ~HasSelection(f))]

\* onContextMenu, outside of what is selected or within.
ContextMenu(at) ==
  /\ ~field.composing
  /\ LET f == [field EXCEPT !.focused = TRUE, !.timer = SlowPoll(field).timer]
         g == Reset(IF Selects(f) /\ at \in f.from..f.to THEN f
                    ELSE Selecting(f, at, at), FALSE)
     IN  field' = [g EXCEPT !.area = IF Selects(g) THEN @ ELSE <<Space>>,
                            !.prev = IF Selects(g) THEN @ ELSE <<Space>>,
                            !.menu = "pending", !.forMenu = TRUE]

\* rehide, and prepareSelectAllHack
Rehide ==
  /\ field.menu = "pending"
  /\ field' = [field EXCEPT
                 !.menu = "shown", !.forMenu = TRUE, !.marked = "rest",
                 !.area = <<ZeroWidth>> \o (IF Selects(field) THEN @ ELSE <<>>),
                 !.prev = IF Selects(field) THEN <<>> ELSE <<ZeroWidth>>]

\* In the menu: select all of the area, delete what is selected there, or
\* undo, which an area that holds what was there before tells of.
MenuSelectsAll ==
  /\ field.menu = "shown" /\ field.forMenu /\ field.focused
  /\ field' = [field EXCEPT !.marked = "all"]
MenuDeletes ==
  /\ field.menu = "shown" /\ field.forMenu /\ field.focused
  /\ field.marked = "rest" /\ HasSelection(field)
  /\ field' = [Poll(Entered(field, <<>>)) EXCEPT
                 !.meant = IF field.readOnly THEN @ ELSE Meant(field, <<>>)]
MenuUndoes(text) ==
  /\ field.menu = "shown" /\ field.forMenu /\ field.focused /\ ~field.readOnly
  /\ field' = [Edited(Reset(field, FALSE), 0, Len(field.text), text) EXCEPT !.meant = text]

\* The timer that looks for it: it finds it, looks again later or gives up.
\* When the area is set the browser ends what is being composed.
Detect ==
  /\ field.menu = "shown"
  /\ field' =
       IF field.forMenu /\ Unnoticed(field)
       THEN [Selecting(field, 0, Len(field.text)) EXCEPT !.menu = "none"]
       ELSE [Reset(field, FALSE) EXCEPT !.menu = "none", !.composing = FALSE,
                                        !.composed = 0]

Timer == field.timer # "off" /\ field' = TimedOut(field)

LeavePage == field.astray /\ field' \in EmptyFields

PasteTexts == {<<LineEnd>>} \cup {<<key>> : key \in Key} \cup {field.copied.text}
ComposedTexts == {<<>>} \cup {<<j>> : j \in Key} \cup {<<j, k>> : j \in Key, k \in Key}

FieldNext ==
  \/ LeavePage
  \/ /\ ~field.astray
     /\ \/ \E key \in Key : PressKey(key)
        \/ \E keys \in ComposedTexts : Compose(keys)
        \/ StopComposing
        \/ \E text \in PasteTexts : Paste(text)
        \/ CopyText \/ CutText \/ PressBackspace \/ PressEnter
        \/ \E from, to \in 0..Len(field.text) : from <= to /\ SelectText(from, to)
        \/ BlurField \/ FocusField
        \/ \E at \in 0..Len(field.text) : ContextMenu(at)
        \/ Rehide \/ MenuSelectsAll \/ MenuDeletes
        \/ \E text \in {<<>>, <<LineEnd>>} : MenuUndoes(text)
        \/ Detect \/ Timer
     /\ Len(field'.text) <= MaxField /\ Len(field'.area) <= MaxArea

FieldSpec == FieldInit /\ [][FieldNext]_field

-----------------------------------------------------------------------------
(***************************************************************************)
(* What is typed, composed, cut or deleted through the area is in the      *)
(* document at once, once, at the cursor or for what was selected,         *)
(* whatever was left in the area by a menu, a paste or a selection: save   *)
(* that a key pressed after all was selected in the menu, before the timer *)
(* found it out, goes astray, and so may what reads like the line that was *)
(* copied as a whole.  And while the editor has the focus a timer is set   *)
(* to read the area.                                                       *)
(***************************************************************************)
TypedOnce ==
  /\ field.astray \/ field.text = field.meant
  /\ field.focused => field.timer # "off"
=============================================================================
