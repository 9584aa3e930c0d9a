--------------------------- MODULE DateRangePicker ---------------------------
(***************************************************************************)
(* The calendar widget with which the trend pages choose their days        *)
(* (daterangepicker 2.1.25 with the options the pages give it: predefined  *)
(* ranges, linked calendars, no time, no limits, attached to a div).  A    *)
(* day is a number, a month an index into FirstOfMonth.                    *)
(*                                                                         *)
(* The widget is one record, and each of its methods an operator from the  *)
(* record before the call to the record after it, so that the handlers can *)
(* be written as the chains of calls they are.  Next to it stand the       *)
(* caption of the page, which the picker's callback writes, and the days   *)
(* the page asks for, which its apply handler copies from the caption.     *)
(***************************************************************************)
EXTENDS Integers

CONSTANTS
  Picks,          \* the days the user clicks on or types
  Ranges,         \* the predefined ranges: label -> <<first day, last day>>
  Opening,        \* the label of the range the page opens with
  Months,         \* the months the user leafs through on the left
  FirstOfMonth,   \* month -> the day number of its first day
  WeekdayOfZero,  \* the day of the week of day 0
  FirstWeekday,   \* locale.firstDay
  NoMonth,        \* leftCalendar.month before the first opening
  NoDate,         \* endDate == null
  Garbage         \* a text that is no date

Day == Picks \cup UNION {{Ranges[r][1], Ranges[r][2]} : r \in DOMAIN Ranges}
Neighbours == UNION {{m - 1, m, m + 1, m + 2} : m \in Months}
Length(m) == FirstOfMonth[m + 1] - FirstOfMonth[m]
MonthOf(d) ==
  CHOOSE m \in Months : FirstOfMonth[m] <= d /\ d < FirstOfMonth[m + 1]

ASSUME PickerAssumption ==
  /\ Picks \subseteq Int /\ Months \subseteq Int /\ Opening \in DOMAIN Ranges
  /\ \A r \in DOMAIN Ranges :
       Ranges[r] \in Int \X Int /\ Ranges[r][1] <= Ranges[r][2]
  /\ FirstOfMonth \in [Neighbours -> Int]
  /\ \A m \in Months : \A k \in {m - 1, m, m + 1} : Length(k) \in 28..31
  /\ \A d \in Day :
       \E m \in Months : FirstOfMonth[m] <= d /\ d < FirstOfMonth[m + 1]
  /\ WeekdayOfZero \in 0..6 /\ FirstWeekday \in 0..6
  /\ NoMonth \notin Int /\ NoDate \notin Int /\ Garbage \notin Int /\ NoDate # Garbage

VARIABLES picker,   \* the widget
          caption,  \* the pair shown by #reportrange
          queried   \* stime and etime

pickerVars == <<picker, caption, queried>>

Sides == {"start", "end"}

-----------------------------------------------------------------------------
(* The grid of a month: six weeks of seven days. *)

Weekday(d) == (d + WeekdayOfZero) % 7

\* Mutant: a month that begins late in the week gets no week of its own.
StartDayUnwrapped(m) ==
  Length(m - 1) - Weekday(FirstOfMonth[m]) + FirstWeekday + 1

\* The day of the preceding month that stands in the first cell.
StartDay(m) ==
  LET days == Length(m - 1)
      startDay == days - Weekday(FirstOfMonth[m]) + FirstWeekday + 1
  IN  IF Weekday(FirstOfMonth[m]) = FirstWeekday THEN days - 6
      ELSE IF startDay > days THEN startDay - 7
      ELSE startDay

\* calendar[i / 7][i % 7]
Cell(m, i) == FirstOfMonth[m - 1] + StartDay(m) - 1 + i

OnCalendar(m, d) == \E i \in 0..41 : Cell(m, i) = d

-----------------------------------------------------------------------------
(* The methods that read or change the record. *)

UpdateMonthsInView(p) ==
  LET inView(d) == MonthOf(d) \in {p.left, p.right}
  IN  IF inView(p.start) /\ (p.end # NoDate => inView(p.end)) THEN p
      ELSE [p EXCEPT !.left = MonthOf(p.start), !.right = MonthOf(p.start) + 1]

SetStartDate(p, d) == UpdateMonthsInView([p EXCEPT !.start = d])

\* Mutant: an end before the start is taken as it is.
SetEndDateBlindly(p, d) == UpdateMonthsInView([p EXCEPT !.end = d])

SetEndDate(p, d) ==
  UpdateMonthsInView([p EXCEPT !.end = IF d < p.start THEN p.start ELSE d])

\* calculateChosenLabel: a range that is not predefined opens the calendars.
CalculateChosenLabel(p) ==
  IF \E r \in DOMAIN Ranges : Ranges[r] = <<p.start, p.end>> THEN p
  ELSE [p EXCEPT !.calendars = TRUE]

UpdateCalendars(p) == IF p.end = NoDate THEN p ELSE CalculateChosenLabel(p)

UpdateFormInputs(p) ==
  IF p.focus # "none" THEN p
  ELSE [p EXCEPT
          !.text = [start |-> p.start,
                    end |-> IF p.end = NoDate THEN p.text.end ELSE p.end],
          !.applyOn = p.end # NoDate /\ p.start <= p.end]

UpdateView(p) == UpdateFormInputs(UpdateCalendars(UpdateMonthsInView(p)))

Show(p) ==
  IF p.showing THEN p
  ELSE UpdateView([p EXCEPT !.oldStart = p.start, !.oldEnd = p.end,
                            !.showing = TRUE])

\* Mutant: a half chosen range is kept when the picker closes.
HideKeeping(p) == [p EXCEPT !.showing = FALSE]

\* hide(): a half chosen range falls back to the last one.
Hide(p) ==
  IF ~p.showing THEN p
  ELSE LET half == p.end = NoDate
       IN  [p EXCEPT !.start = IF half THEN p.oldStart ELSE @,
                     !.end = IF half THEN p.oldEnd ELSE @,
                     !.showing = FALSE]

Toggled(p) == IF p.showing THEN Hide(p) ELSE Show(p)

\* What the page is told when q follows p: hide() calls it back if the range
\* is not the one it was shown with.  The same days may still differ in the
\* time of the last one (setEndDate clones the start), hence the choice.
CallsBack(p, q) ==
  IF ~p.showing \/ q.showing THEN {FALSE}
  ELSE IF <<q.start, q.end>> = <<p.oldStart, p.oldEnd>> THEN BOOLEAN
  ELSE {TRUE}

\* formInputsChanged on the field of one side.
FormInputsChanged(p, side) ==
  LET valid == p.text.start # Garbage /\ p.text.end # Garbage
      start == IF side = "end" /\ p.text.end < p.text.start
               THEN p.text.end ELSE p.text.start
      q == SetEndDate(SetStartDate(p, start), p.text.end)
      r == IF side = "end" THEN [q EXCEPT !.text.start = q.start]
           ELSE [q EXCEPT !.text.end = q.end]
  IN  UpdateView(IF valid THEN r ELSE p)

\* formInputsFocused: to focus the end is to choose it anew.
FormInputsFocused(p, side) ==
  LET q == [p EXCEPT !.focus = side]
  IN  IF side = "end"
      THEN UpdateView(SetStartDate([q EXCEPT !.end = NoDate], q.start))
      ELSE q

\* formInputsBlurred: an end that was not chosen after all is read back.
FormInputsBlurred(p) ==
  IF p.end = NoDate /\ p.text.end # Garbage
  THEN UpdateView(SetEndDate(p, p.text.end)) ELSE p

-----------------------------------------------------------------------------
(* What the user does.  The mouse press that leaves a field is handled     *)
(* before the field's change and blur events (leaving), a click after them.*)

PickerOpens ==
  picker = [start |-> Ranges[Opening][1], end |-> Ranges[Opening][2],
            oldStart |-> NoDate, oldEnd |-> NoDate,
            showing |-> FALSE, calendars |-> FALSE,
            left |-> NoMonth, right |-> NoMonth,
            text |-> [start |-> Garbage, end |-> Garbage],
            focus |-> "none", typed |-> FALSE, leaving |-> FALSE,
            applyOn |-> FALSE]
PickerInit ==
  PickerOpens /\ caption = Ranges[Opening] /\ queried = Ranges[Opening]

AtRest == picker.focus = "none"
Pressable == picker.showing /\ ~picker.leaving

\* A click on the element the picker is attached to.
Toggle == AtRest /\ picker' = Toggled(picker)

\* A mouse press anywhere else on the page.
OutsideClick ==
  /\ Pressable
  /\ picker' = [Hide(picker) EXCEPT !.leaving = picker.focus # "none"]

\* A press on a day; the range it changes is shown at once.
ClickDate(d) ==
  /\ Pressable /\ picker.calendars
  /\ OnCalendar(picker.left, d) \/ OnCalendar(picker.right, d)
  /\ LET q == IF picker.end # NoDate \/ d < picker.start
              THEN SetStartDate([picker EXCEPT !.end = NoDate], d)
              ELSE SetEndDate(picker, d)
     IN  picker' = [UpdateView(q) EXCEPT !.leaving = picker.focus # "none"]

\* The mouse over a day shows it in the field that would be chosen.
HoverDate(d) ==
  /\ Pressable /\ picker.calendars
  /\ OnCalendar(picker.left, d) \/ OnCalendar(picker.right, d)
  /\ LET side == IF picker.end = NoDate THEN "end" ELSE "start"
     IN  picker' = IF picker.focus = side THEN picker
                   ELSE [picker EXCEPT !.text[side] = d]

HoverRange(r) ==
  /\ Pressable /\ AtRest
  /\ picker' = [picker EXCEPT !.text = [start |-> Ranges[r][1],
                                        end |-> Ranges[r][2]]]
HoverCustomRange == Pressable /\ AtRest /\ picker' = UpdateView(picker)
MouseLeave == Pressable /\ picker' = UpdateFormInputs(picker)

\* A predefined range is chosen and applied at once.
ClickRange(r) ==
  /\ Pressable /\ AtRest
  /\ picker' = Hide([picker EXCEPT !.start = Ranges[r][1],
                                   !.end = Ranges[r][2], !.calendars = FALSE])

ClickCustomRange ==
  Pressable /\ AtRest /\ picker' = [picker EXCEPT !.calendars = TRUE]

Leaf(n) ==
  /\ Pressable /\ AtRest /\ picker.calendars
  /\ picker.left + n \in Months
  /\ picker' = UpdateCalendars([picker EXCEPT !.left = @ + n, !.right = @ + n])
ClickPrev == Leaf(-1)
ClickNext == Leaf(1)

ClickApply == Pressable /\ AtRest /\ picker.applyOn /\ picker' = Hide(picker)

ClickCancel ==
  /\ Pressable /\ AtRest
  /\ picker' = Hide([picker EXCEPT !.start = picker.oldStart,
                                   !.end = picker.oldEnd])

Focus(side) ==
  /\ Pressable /\ AtRest /\ picker.calendars
  /\ picker' = FormInputsFocused(picker, side)

Type(side, d) ==
  /\ Pressable /\ picker.focus = side
  /\ picker' = [picker EXCEPT !.text[side] = d, !.typed = TRUE]

\* The Enter key commits what was typed.
Enter ==
  /\ Pressable /\ ~AtRest /\ picker.typed
  /\ picker' = [FormInputsChanged(picker, picker.focus) EXCEPT !.typed = FALSE]

\* The field loses the focus: its change event, if it was edited, then blur.
\* Browsers differ in whether it still counts as focused meanwhile.
Leave ==
  /\ ~AtRest
  /\ \E focused \in BOOLEAN :
       LET p == IF focused THEN picker ELSE [picker EXCEPT !.focus = "none"]
           q == IF picker.typed THEN FormInputsChanged(p, picker.focus) ELSE p
       IN  picker' = [FormInputsBlurred(q) EXCEPT
                        !.focus = "none", !.typed = FALSE, !.leaving = FALSE]

\* A field that was hidden under the cursor may lose it without any event.
LeaveUnnoticed ==
  /\ ~AtRest /\ ~picker.showing
  /\ picker' = [picker EXCEPT
                  !.focus = "none", !.typed = FALSE, !.leaving = FALSE]

\* The steps that cannot hide the picker.
Browse ==
  \/ \E d \in Picks : ClickDate(d) \/ HoverDate(d)
  \/ \E r \in DOMAIN Ranges : HoverRange(r)
  \/ \E side \in Sides :
       Focus(side) \/ \E d \in Picks \cup {Garbage} : Type(side, d)
  \/ HoverCustomRange \/ MouseLeave \/ ClickCustomRange
  \/ ClickPrev \/ ClickNext \/ Enter \/ Leave \/ LeaveUnnoticed

\* The page's callback, and its handler of the apply event.
Callback ==
  \E told \in CallsBack(picker, picker') :
    caption' = IF told THEN <<picker'.start, picker'.end>> ELSE caption
OnApply == queried' = caption'

PickerNext ==
  \/ /\ Toggle \/ OutsideClick \/ ClickCancel \/ Browse
     /\ Callback /\ UNCHANGED queried
  \/ /\ ClickApply \/ \E r \in DOMAIN Ranges : ClickRange(r)
     /\ Callback /\ OnApply

PickerSpec == PickerInit /\ [][PickerNext]_pickerVars

-----------------------------------------------------------------------------
PickerType ==
  picker \in [start : Day, end : Day \cup {NoDate},
              oldStart : Day \cup {NoDate}, oldEnd : Day \cup {NoDate},
              showing : BOOLEAN, calendars : BOOLEAN,
              left : Months \cup {NoMonth}, right : Int \cup {NoMonth},
              text : [start : Day \cup {Garbage}, end : Day \cup {Garbage}],
              focus : Sides \cup {"none"}, typed : BOOLEAN,
              leaving : BOOLEAN, applyOn : BOOLEAN]

\* A range that is chosen is in order, and the picker is never hidden with
\* half a range (show() clones both ends: a missing one would throw).
RangeWhole ==
  /\ ~picker.showing => picker.end # NoDate
  /\ picker.end # NoDate => picker.start <= picker.end

(***************************************************************************)
(* The six weeks drawn for a month begin on the locale's first day of the  *)
(* week, with one to seven days of the month before, and hold the whole    *)
(* month, whose name is that of the ninth cell (renderCalendar).           *)
(***************************************************************************)
GridWhole(m) ==
  /\ Weekday(Cell(m, 0)) = FirstWeekday
  /\ FirstOfMonth[m] - Cell(m, 0) \in 1..7
  /\ Cell(m, 41) >= FirstOfMonth[m + 1]
  /\ Cell(m, 8) \in FirstOfMonth[m]..(FirstOfMonth[m + 1] - 1)
CalendarsWhole ==
  picker.left # NoMonth =>
    picker.right = picker.left + 1 /\ GridWhole(picker.left) /\ GridWhole(picker.right)

(***************************************************************************)
(* The widget and the page's two handlers do what RangeChooser promises    *)
(* the rest of the page: whatever is clicked, hovered, typed or half       *)
(* chosen, closing yields a pair of days in order, the caption follows     *)
(* every change it is called back about and no other, and only apply moves *)
(* the days that are queried for.                                          *)
(***************************************************************************)
Held == IF picker.showing THEN <<picker.oldStart, picker.oldEnd>>
        ELSE <<picker.start, picker.end>>

C == INSTANCE RangeChooser WITH
       Days <- Day, Opening <- Ranges[Opening],
       open <- picker.showing, chosen <- Held,
       label <- caption, asked <- queried
ImplementsChooser == C!Chooser
=============================================================================
