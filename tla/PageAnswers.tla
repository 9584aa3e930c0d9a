----------------------------- MODULE PageAnswers -----------------------------
(***************************************************************************)
(* Where the pages show what the server answers to a choice of the user:   *)
(* the paged and searched tables, the dialogs that show one field of a     *)
(* row, the list of child resources, the result of a topic's settings.     *)
(* One such place is watched.  Requests are answered in any order or not   *)
(* at all; no page has an error handler.                                   *)
(*                                                                         *)
(* The places differ in which answers they draw.  A table (DataTables with *)
(* bServerSide) numbers its requests and drops the answers to all but the  *)
(* newest.  A table that is made anew for every choice leaves the answers  *)
(* to its predecessors to elements that are gone.  The rest draw all.      *)
(***************************************************************************)
EXTENDS Integers, FiniteSets

CONSTANTS
  AnswerRow, \* rows, groups or topics the user may choose
  Starts,    \* first rows of the pages of a table
  Terms,     \* what is typed into a table's search box
  MaxAsked   \* bound: requests in flight, and made before all are answered

ASSUME AnswersAssumption == MaxAsked \in Nat /\ 0 \in Starts /\ "" \in Terms

VARIABLES
  place,     \* the place that is watched
  wish,      \* what the user wants to see there
  element,   \* which table of its kind is in the document
  draw,      \* the number of the newest request
  sent,      \* requests in flight
  rowsDrawn, \* the request whose answer the place shows
  answered,  \* history: the newest request answered
  crossed,   \* history: an answer arrived after the answer to a newer request
  missed     \* history: the newest request failed

answerVars ==
  <<place, wish, element, draw, sent, rowsDrawn, answered, crossed, missed>>

-----------------------------------------------------------------------------
(* The places. *)

Table(name, searched) == [name |-> name, draws |-> "newest", searched |-> searched]
OwnTable(name) == [name |-> name, draws |-> "own", searched |-> FALSE]
Text(name) == [name |-> name, draws |-> "all", searched |-> FALSE]

ConsumerRuleTable == Table("consumer rules", TRUE)
ClusterRuleTable == Table("cluster rules", TRUE)
AlarmGroupTable == Table("alarm groups", TRUE)
UserTable == Table("users", TRUE)
RoleTable == Table("roles", FALSE)
TopicTable == Table("topics", TRUE)
ExportTable == Table("export", TRUE)
KsqlTable == Table("queries", TRUE)
BrokerTable == Table("brokers", TRUE)
ZkTable == Table("zookeepers", TRUE)
ClusterTable == Table("clusters", TRUE)
ConsumerTable == Table("consumers", TRUE)
MetaTable == Table("partitions", FALSE)
OffsetTable == OwnTable("offsets")
GroupTopicTable == OwnTable("topics of a group")
ConsumerRuleDetail == Text("consumer rule")
ClusterRuleDetail == Text("cluster rule")
AlarmGroupDetail == Text("alarm group")
KsqlDetail == Text("query")
ChildResources == Text("child resources")
ConfigResult == Text("settings")

OnLoad == {ConsumerRuleTable, ClusterRuleTable, AlarmGroupTable, UserTable,
           RoleTable, TopicTable, ExportTable, KsqlTable, BrokerTable, ZkTable,
           ClusterTable, ConsumerTable, MetaTable, OffsetTable}
OnClick == {GroupTopicTable, ConsumerRuleDetail, ClusterRuleDetail,
            AlarmGroupDetail, KsqlDetail, ChildResources, ConfigResult}

-----------------------------------------------------------------------------
Nobody == [of |-> "nobody", start |-> 0, term |-> ""]
Nothing == [wish |-> Nobody, element |-> 0, draw |-> 0]

\* A request for w with number n in the table e.  (Numbers of a table begin
\* anew when all is quiet, which keeps them small.)
Quiet == sent = {}
Number == IF Quiet THEN 1 ELSE draw + 1
Request(w, e, n) ==
  /\ n <= MaxAsked /\ Cardinality(sent) < MaxAsked
  /\ wish' = w /\ element' = e /\ draw' = n
  /\ sent' = sent \cup {[wish |-> w, element |-> e, draw |-> n]}
  /\ answered' = (IF Quiet THEN 0 ELSE answered)
  /\ crossed' = (crossed /\ ~Quiet)
  /\ missed' = FALSE
Ask(w) == Request(w, element, Number)

AnswersInit ==
  /\ place \in OnLoad \cup OnClick
  /\ wish = Nobody /\ element = 1 /\ rowsDrawn = Nothing
  /\ answered = 0 /\ crossed = FALSE /\ missed = FALSE
  /\ draw = (IF place \in OnLoad THEN 1 ELSE 0)
  /\ sent = (IF place \in OnLoad
             THEN {[wish |-> Nobody, element |-> 1, draw |-> 1]} ELSE {})

\* The user leafs through a table or searches it: a search shows page one.
HasTable == place.draws # "all" /\ (place \in OnLoad \/ wish.of # "nobody")
Turn(s) ==
  HasTable /\ Ask([wish EXCEPT !.start = s]) /\ UNCHANGED <<place, rowsDrawn>>
Search(t) ==
  /\ place.searched
  /\ Ask([wish EXCEPT !.start = 0, !.term = t])
  /\ UNCHANGED <<place, rowsDrawn>>

\* A row is chosen: its field is asked for, the old text stays until then.
OpenDetail(r) ==
  /\ place.draws = "all"
  /\ Ask([Nobody EXCEPT !.of = r])
  /\ UNCHANGED <<place, rowsDrawn>>

\* Another way to look at settings is ticked: the text is cleared.
ClearResult ==
  /\ place = ConfigResult /\ wish # Nobody
  /\ Number <= MaxAsked
  /\ wish' = Nobody /\ draw' = Number /\ rowsDrawn' = [Nothing EXCEPT !.draw = Number]
  /\ answered' = Number /\ crossed' = (crossed /\ ~Quiet) /\ missed' = FALSE
  /\ UNCHANGED <<place, element, sent>>

\* Mutant: the dialog has one table, whose numbers begin anew.
OpenGroupReusing(r) ==
  /\ place = GroupTopicTable
  /\ Request([Nobody EXCEPT !.of = r], element, 1)
  /\ UNCHANGED <<place, rowsDrawn>>

\* A group is chosen: a table of its own takes the place of the last one.
OpenGroup(r) ==
  /\ place = GroupTopicTable
  /\ \E e \in 1..(MaxAsked + 1) :
       /\ e # element /\ \A q \in sent : e # q.element
       /\ Request([Nobody EXCEPT !.of = r], e, 1)
  /\ rowsDrawn' = Nothing /\ UNCHANGED place

\* Which answers are drawn.  Within one table it is the number that counts.
Draws(r) == place.draws = "all" \/ (r.element = element /\ r.draw = draw)

AnswerArrives(r) ==
  /\ rowsDrawn' = IF Draws(r) THEN r ELSE rowsDrawn
  /\ sent' = sent \ {r}
  /\ answered' = IF r.draw > answered THEN r.draw ELSE answered
  /\ crossed' = (crossed \/ r.draw < answered)
  /\ UNCHANGED <<place, wish, element, draw, missed>>

AnswerFails(r) ==
  /\ sent' = sent \ {r}
  /\ missed' = (missed \/ (r.element = element /\ r.draw = draw))
  /\ UNCHANGED <<place, wish, element, draw, rowsDrawn, answered, crossed>>

AnswersNext ==
  \/ \E s \in Starts : Turn(s)
  \/ \E t \in Terms : Search(t)
  \/ \E r \in AnswerRow : OpenDetail(r) \/ OpenGroup(r)
  \/ ClearResult
  \/ \E r \in sent : AnswerArrives(r) \/ AnswerFails(r)

AnswersSpec == AnswersInit /\ [][AnswersNext]_answerVars

-----------------------------------------------------------------------------
(***************************************************************************)
(* A table of a group never shows another group.  When all requests are    *)
(* answered, a table shows the page and the search it was last asked for,  *)
(* in whatever order the answers came, and so does every other place       *)
(* unless answers have crossed; a request that failed excepted.            *)
(***************************************************************************)
AnswersFollow ==
  /\ place.draws = "own" /\ rowsDrawn # Nothing => rowsDrawn.wish.of = wish.of
  /\ Quiet /\ ~missed /\ (place.draws = "all" => ~crossed) => rowsDrawn.wish = wish
=============================================================================
