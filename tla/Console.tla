------------------------------- MODULE Console -------------------------------
(***************************************************************************)
(* The browser's side of the program: what runs in the pages while the     *)
(* user is at one of them.                                                 *)
(*                                                                         *)
(* Each component has its variables to itself.  The pages are loaded       *)
(* independently of each other, and on the one page that holds several of  *)
(* the components, the page of queries, each is modelled with what the     *)
(* others do to it.  So the user is at one component at a time (live), and *)
(* the others rest as they are when a page has been loaded.  The trend     *)
(* pages, whose range picker asks a server that may be late, are composed  *)
(* in TrendPages.                                                          *)
(***************************************************************************)
EXTENDS DateRangePicker, TreeDiagram, PageAnswers, RowBoxes, RowForms, RowLinks,
        PickForms, AlarmGroups, SqlCompletion, QueryResults, LineTree,
        EditHistory, ViewMap, HighlightWorker, TextareaInput

VARIABLES
  live   \* the component the user is at

Components ==
  {"picker", "diagram", "answers", "boxes", "forms", "links", "picks", "groups",
   "completion", "queries", "lines", "history", "view", "highlight", "field"}

\* What the others rest at, where their pages leave a choice.
Resting(component, choice) == live # component => choice

ConsoleInit ==
  /\ live \in Components
  /\ PickerInit
  /\ shape \in Shapes /\ Resting("diagram", shape = CHOOSE s \in Shapes : TRUE) /\ TreeInit
  /\ AnswersInit /\ Resting("answers", place = CHOOSE p \in OnClick : TRUE)
  /\ BoxesInit /\ Resting("boxes", panel = "tree")
  /\ FormsInit /\ Resting("forms", dialog = CHOOSE d \in AtClick : TRUE)
  /\ LinksInit /\ Resting("links", list = "topics")
  /\ PicksInit /\ Resting("picks", sheet = MockForm)
  /\ GroupsInit /\ Resting("groups", stored = [g \in Group |-> Absent])
  /\ CompletionInit
  /\ QueriesInit
  /\ LinesInit /\ Resting("lines", plain = <<CHOOSE h \in LineHeights : TRUE>>)
  /\ HistoryInit /\ Resting("history", ~doc.readOnly)
  /\ ViewInit /\ Resting("view", ~editorHidden)
  /\ HighlightInit
  /\ FieldInit /\ Resting("field", ~field.readOnly)

-----------------------------------------------------------------------------
\* Everything but the component's own variables stays as it is.
Rest(component) ==
  /\ UNCHANGED live
  /\ component # "picker" => UNCHANGED pickerVars
  /\ component # "diagram" => UNCHANGED treeVars
  /\ component # "answers" => UNCHANGED answerVars
  /\ component # "boxes" => UNCHANGED boxVars
  /\ component # "forms" => UNCHANGED formVars
  /\ component # "links" => UNCHANGED linkVars
  /\ component # "picks" => UNCHANGED pickVars
  /\ component # "groups" => UNCHANGED groupVars
  /\ component # "completion" => UNCHANGED completionVars
  /\ component # "queries" => UNCHANGED queryVars
  /\ component # "lines" => UNCHANGED lineVars
  /\ component # "history" => UNCHANGED doc
  /\ component # "view" => UNCHANGED viewVars
  /\ component # "highlight" => UNCHANGED sqlVars
  /\ component # "field" => UNCHANGED field

ConsoleNext ==
  \/ live = "picker" /\ PickerNext /\ Rest("picker")
  \/ live = "diagram" /\ TreeNext /\ Rest("diagram")
  \/ live = "answers" /\ AnswersNext /\ Rest("answers")
  \/ live = "boxes" /\ BoxesNext /\ Rest("boxes")
  \/ live = "forms" /\ FormsNext /\ Rest("forms")
  \/ live = "links" /\ LinksNext /\ Rest("links")
  \/ live = "picks" /\ PicksNext /\ Rest("picks")
  \/ live = "groups" /\ GroupsNext /\ Rest("groups")
  \/ live = "completion" /\ CompletionNext /\ Rest("completion")
  \/ live = "queries" /\ QueriesNext /\ Rest("queries")
  \/ live = "lines" /\ LinesNext /\ Rest("lines")
  \/ live = "history" /\ HistoryNext /\ Rest("history")
  \/ live = "view" /\ ViewNext /\ Rest("view")
  \/ live = "highlight" /\ HighlightNext /\ Rest("highlight")
  \/ live = "field" /\ FieldNext /\ Rest("field")

consoleVars ==
  <<live, pickerVars, treeVars, answerVars, boxVars, formVars, linkVars, pickVars,
    groupVars, completionVars, queryVars, lineVars, doc, viewVars, sqlVars, field>>

ConsoleSpec == ConsoleInit /\ [][ConsoleNext]_consoleVars
=============================================================================
