------------------------------ MODULE PagesProofs ------------------------------
(***************************************************************************)
(* Proofs about the pages of the console: those that list rows and act on  *)
(* them, for every set of rows, texts and addresses and every number of    *)
(* requests at once; the forms with select boxes, for all lists a server   *)
(* may answer; the date picker, for every calendar, every set of           *)
(* predefined ranges and every locale; and the hidden text area the query  *)
(* editor is typed in, for every set of keys.                              *)
(*                                                                         *)
(* The parts share no variable.  The last keeps account of what the area   *)
(* holds in every state of its menu, its focus and the selection.          *)
(***************************************************************************)
EXTENDS PageAnswers, RowBoxes, RowForms, RowLinks, AlarmGroups, QueryResults, PickForms,
        DateRangePicker, TextareaInput, FoldLemmas, SequenceTheorems, TLAPS

-----------------------------------------------------------------------------
(* Alarm groups. *)

GroupsTyped ==
  /\ stored \in [Group -> Address \cup {Absent}]
  /\ created \in [Group -> SUBSET Address]
  /\ \A q \in requests : q.group \in Group /\ q.address \in Address

\* What a user was told to have created is stored as he entered it until the
\* group is edited or deleted, however many requests add, edit and delete groups
\* at once (AlarmController).  Where nothing is stored nothing is claimed to be,
\* so an insert that succeeds is the only claim.
THEOREM CreatedIsStored == GroupsSpec => []CreatedMeansStored
<1> DEFINE I == GroupsTyped /\ CreatedMeansStored
<1> USE DEF GroupsTyped, CreatedMeansStored
<1>1. GroupsInit => I
  BY DEF GroupsInit
<1>2. I /\ [GroupsNext]_groupVars => I'
  <2> SUFFICES ASSUME I, [GroupsNext]_groupVars PROVE I'
    OBVIOUS
  <2>1. ASSUME NEW g \in Group, NEW a \in Address, CountGroup(g, a) \/ ReadGroup(g, a)
        PROVE  I'
    BY <2>1 DEF CountGroup, ReadGroup, GroupRequest
  <2>2. ASSUME NEW q \in requests, InsertGroup(q) PROVE I'
    <3>1. CASE stored[q.group] = Absent
      <4>1. created[q.group] = {}
        BY <3>1, GroupsAssumption
      <4>2. GroupStored(q) /\ requests' = requests \ {q}
        BY <2>2, <3>1 DEF InsertGroup
      <4>3. GroupsTyped'
        BY <4>1, <4>2 DEF GroupStored
      <4>4. /\ stored'[q.group] = q.address /\ created'[q.group] \subseteq {q.address}
            /\ \A g \in Group \ {q.group} : stored'[g] = stored[g] /\ created'[g] = created[g]
        BY <4>1, <4>2 DEF GroupStored
      <4> QED BY <4>3, <4>4
    <3>2. CASE stored[q.group] # Absent
      BY <2>2, <3>2 DEF InsertGroup
    <3> QED BY <3>1, <3>2
  <2>3. ASSUME NEW g \in Group, DeleteGroup(g) PROVE I'
    BY <2>3 DEF DeleteGroup
  <2>4. CASE UNCHANGED groupVars
    BY <2>4 DEF groupVars
  <2> QED BY <2>1, <2>2, <2>3, <2>4 DEF GroupsNext
<1>3. I => CreatedMeansStored
  OBVIOUS
<1> QED BY <1>1, <1>2, <1>3, PTL DEF GroupsSpec

-----------------------------------------------------------------------------
(* Query results. *)

\* Queries are numbered as they are sent; the messages shown are of a query
\* that succeeded, and there are some as soon as one has.
QueriesOrdered ==
  /\ newest \in Nat /\ running \subseteq 1..newest /\ succeeded \subseteq 1..newest
  /\ messages \in succeeded \cup {NoQuery}
  /\ messages = NoQuery => succeeded = {}
  /\ log.went = "ok" => log.of \in succeeded

\* The log and the messages of the query page agree as LogAndMessagesAgree
\* says, however many queries run at once and however they are answered.
THEOREM LogAndMessagesDoAgree == QueriesSpec => []LogAndMessagesAgree
<1> DEFINE I == QueriesOrdered /\ LogAndMessagesAgree
<1> USE DEF QueriesOrdered, LogAndMessagesAgree, NoQuery, Cleared
<1>1. QueriesInit => I
  BY DEF QueriesInit
<1>2. I /\ [QueriesNext]_queryVars => I'
  <2> SUFFICES ASSUME I, [QueriesNext]_queryVars PROVE I'
    OBVIOUS
  <2>1. CASE ClickQuery
    BY <2>1 DEF ClickQuery
  <2>2. CASE Reload
    BY <2>2 DEF Reload
  <2>3. ASSUME NEW n \in running, QueryLost(n) PROVE I'
    BY <2>3 DEF QueryLost
  <2>4. ASSUME NEW n \in running, NEW went \in {"ok", "error"}, QueryAnswered(n, went)
        PROVE  I'
    <3>1. log' = [of |-> n, went |-> went] /\ log'.of = n /\ log'.went = went
      BY <2>4 DEF QueryAnswered
    <3>2. QueriesOrdered'
      BY <2>4, <3>1 DEF QueryAnswered, DisplayTopicMessage
    <3>3. overtaken' \/ log'.of = newest'
      BY <2>4, <3>1, Zenon DEF QueryAnswered
    <3>4. log'.went = "ok" /\ messages' # n => \E m \in succeeded' : m # n
      BY <2>4, <3>1 DEF QueryAnswered, DisplayTopicMessage
    <3> QED BY <3>1, <3>2, <3>3, <3>4
  <2>5. CASE UNCHANGED queryVars
    BY <2>5 DEF queryVars
  <2> QED BY <2>1, <2>2, <2>3, <2>4, <2>5 DEF QueriesNext
<1>3. I => LogAndMessagesAgree
  OBVIOUS
<1> QED BY <1>1, <1>2, <1>3, PTL DEF QueriesSpec

-----------------------------------------------------------------------------
(* Links. *)

\* The variable topic is the open row where the address is made anew, the
\* new link of the remove dialog is there by then, and nothing is typed
\* where there is no field.
LinksReady ==
  /\ typed \in [Dialogs -> Tokens \cup Counts]
  /\ DOMAIN link = Dialogs
  /\ asking \in Dialogs \cup {NoDialog}
  /\ asking = "modify" => list = "topics"
  /\ asking \in {"remove", "modify"} /\ list \in {"topics", "export"}
       => topic = subject
  /\ asking = "remove" => link["remove"] # NoLink
  /\ typed["clean"] = ""
  /\ list \notin {"topics", "export"} => typed["remove"] = ""

LEMMA LinkKinds ==
  /\ Bare.href = "#" /\ NoLink.href = "none" /\ Bare # NoLink
  /\ \A r, t : To(r, t) # NoLink
BY DEF Bare, NoLink, To

\* The link of the open dialog is for the row the dialog was opened for, on
\* every page and after any sequence of clicks and keys.
THEOREM LinksNameOpenRows == LinksSpec => []LinkNamesOpenRow
<1> DEFINE I == LinksReady /\ LinkNamesOpenRow
<1> USE DEF LinksReady, LinkNamesOpenRow, Dialogs, NoDialog
<1>1. LinksInit => I
  BY LinksAssumption DEF LinksInit
<1>2. I /\ [LinksNext]_linkVars => I'
  <2> SUFFICES ASSUME I, [LinksNext]_linkVars PROVE I'
    OBVIOUS
  <2> USE LinkKinds
  <2>1. ASSUME NEW r \in LinkRow, RemoveTopic(r) PROVE I'
    BY <2>1 DEF RemoveTopic, Open
  <2>2. ASSUME NEW r \in LinkRow, RemoveExport(r) PROVE I'
    BY <2>2 DEF RemoveExport, Open
  <2>3. ASSUME NEW r \in LinkRow, ModifyTopic(r) PROVE I'
    BY <2>3 DEF ModifyTopic, Open
  <2>4. ASSUME NEW r \in LinkRow, CleanTopic(r) PROVE I'
    BY <2>4 DEF CleanTopic, Open
  <2>5. ASSUME NEW r \in LinkRow,
               \/ ChangeCluster(r) \/ RemoveConsumerRule(r)
               \/ RemoveClusterRule(r) \/ RemoveAlarmGroup(r)
        PROVE  I'
    BY <2>5 DEF ChangeCluster, RemoveConsumerRule, RemoveClusterRule,
                RemoveAlarmGroup, Open
  <2>6. ASSUME NEW t \in Tokens, TypeToken(t) PROVE I'
    BY <2>6 DEF TypeToken, DelTopic
  <2>7. ASSUME NEW t \in Counts, TypeCount(t) PROVE I'
    BY <2>7 DEF TypeCount
  <2>8. CASE Dismiss
    BY <2>8 DEF Dismiss
  <2>9. CASE Follow
    BY <2>9, LinksAssumption DEF Follow, FreshDialogs
  <2>10. CASE UNCHANGED linkVars
    BY <2>10 DEF linkVars
  <2> QED BY <2>1, <2>2, <2>3, <2>4, <2>5, <2>6, <2>7, <2>8, <2>9, <2>10
          DEF LinksNext
<1>3. I => LinkNamesOpenRow
  OBVIOUS
<1> QED BY <1>1, <1>2, <1>3, PTL DEF LinksSpec

-----------------------------------------------------------------------------
(* Forms. *)

FormsTyped ==
  /\ dialog \in AtClick \cup AtAnswer
  /\ opened \in Seq(FormRow) /\ awaited \subseteq 1..Len(opened)
  /\ latest \in 0..Len(opened) /\ latest \notin awaited
  /\ form \in [id : FormRow \cup {NoRowOpen}, of : FormRow \cup {NoRowOpen}]
  /\ DOMAIN saved = FormRow

\* What the form holds: the id of the row opened last, or the id of the row
\* its values are of; and unless answers crossed or failed, the values of the
\* newest request answered, which is the last one or is still to come.
FormsFollow ==
  /\ dialog \in AtClick /\ opened # <<>> => form.id = opened[Len(opened)]
  /\ dialog \in AtAnswer => form.id = form.of
  /\ ~answersCrossed /\ ~answerMissed
       => Len(opened) \in awaited \/ latest = Len(opened)
  /\ ~answersCrossed /\ latest > 0 => form.of = opened[latest]

LEMMA AskRowFollows ==
  ASSUME FormsTyped, FormsFollow, NEW d, NEW r \in FormRow, AskRow(d, r),
         form' = IF d \in AtClick THEN [form EXCEPT !.id = r] ELSE form
  PROVE  FormsTyped' /\ FormsFollow'
<1> USE DEF FormsTyped, FormsFollow, AskRow
<1>1. /\ opened' \in Seq(FormRow) /\ Len(opened') = Len(opened) + 1
      /\ opened'[Len(opened) + 1] = r /\ opened' # <<>>
      /\ \A i \in 1..Len(opened) : opened'[i] = opened[i]
      /\ Len(opened) \in Nat
  OBVIOUS
<1>2. awaited' = awaited \cup {Len(opened) + 1} /\ latest' = latest /\ dialog' = dialog
      /\ answersCrossed' = answersCrossed /\ answerMissed' = answerMissed
      /\ saved' = saved /\ dialog = d
  OBVIOUS
<1>3. /\ form' \in [id : FormRow \cup {NoRowOpen}, of : FormRow \cup {NoRowOpen}]
      /\ form'.of = form.of /\ form'.id = IF d \in AtClick THEN r ELSE form.id
  OBVIOUS
<1>4. FormsTyped'
  BY <1>1, <1>2, <1>3
<1>5. dialog' \in AtClick => form'.id = opened'[Len(opened')]
  BY <1>1, <1>2, <1>3
<1>6. dialog' \in AtAnswer => form'.id = form'.of
  BY <1>2, <1>3 DEF AtClick, AtAnswer
<1>7. Len(opened') \in awaited'
  BY <1>1, <1>2
<1>8. ~answersCrossed' /\ latest' > 0 => form'.of = opened'[latest']
  BY <1>1, <1>2, <1>3
<1> QED BY <1>4, <1>5, <1>6, <1>7, <1>8

LEMMA RowArrivesFollows ==
  ASSUME FormsTyped, FormsFollow, NEW i \in awaited, RowArrives(i)
  PROVE  FormsTyped' /\ FormsFollow'
<1> USE DEF FormsTyped, FormsFollow
<1>1. /\ i \in 1..Len(opened) /\ i # latest /\ opened[i] \in FormRow
      /\ Len(opened) \in Nat /\ latest \in Nat
  OBVIOUS
<1>2. /\ awaited' = awaited \ {i} /\ opened' = opened /\ dialog' = dialog
      /\ answerMissed' = answerMissed /\ saved' = saved
      /\ latest' = (IF i > latest THEN i ELSE latest)
  BY DEF RowArrives
<1>3. /\ form' \in [id : FormRow \cup {NoRowOpen}, of : FormRow \cup {NoRowOpen}]
      /\ form'.of = opened[i]
      /\ form'.id = IF dialog \in AtClick THEN form.id ELSE opened[i]
  BY <1>1 DEF RowArrives, Filled
<1>4. FormsTyped'
  BY <1>1, <1>2, <1>3
<1>5. ~answersCrossed' => ~answersCrossed /\ ~(i < latest)
  BY Zenon DEF RowArrives
<1>6. ~answersCrossed' => ~answersCrossed /\ latest' = i
  BY <1>1, <1>2, <1>5
<1>7. ~answersCrossed' /\ ~answerMissed'
        => Len(opened) \in awaited' \/ latest' = Len(opened)
  BY <1>1, <1>2, <1>5, <1>6
<1>8. dialog' \in AtAnswer => form'.id = form'.of
  BY <1>2, <1>3 DEF AtClick, AtAnswer
<1> QED BY <1>2, <1>3, <1>4, <1>6, <1>7, <1>8

\* EditsKeepRows, of one row.
EntryKept(e, r) ==
  /\ e.of = r \/ (e.hasty /\ dialog \in AtClick)
  /\ e.meant = r \/ (e.hasty /\ dialog \in AtAnswer)

LEMMA SubmitFollows ==
  ASSUME FormsTyped, FormsFollow, EditsKeepRows, Submit
  PROVE  FormsTyped' /\ FormsFollow' /\ EditsKeepRows'
<1> USE DEF FormsTyped, FormsFollow
<1>1. /\ opened' = <<>> /\ awaited' = {} /\ form' = BlankForm /\ latest' = 0
      /\ dialog' = dialog /\ opened # <<>> /\ Len(opened) \in Nat \ {0}
      /\ opened' \in Seq(FormRow) /\ Len(opened') = 0
  <2>1. /\ opened' = <<>> /\ awaited' = {} /\ form' = BlankForm /\ latest' = 0
        /\ dialog' = dialog /\ opened # <<>>
    BY Zenon DEF Submit
  <2>2. opened' \in Seq(FormRow) /\ Len(opened') = 0
    BY <2>1
  <2>3. Len(opened) \in Nat \ {0}
    BY <2>1
  <2> QED BY <2>1, <2>2, <2>3
<1>2. /\ form' \in [id : FormRow \cup {NoRowOpen}, of : FormRow \cup {NoRowOpen}]
      /\ form'.id = form'.of
  BY <1>1 DEF BlankForm
<1>3. /\ DOMAIN saved' = FormRow
      /\ \A r \in FormRow : saved'[r] = saved[r] \/ EntryKept(saved'[r], r)
  <2>1. CASE form.id = NoRowOpen \/ dialog = "alarm group"
    BY <2>1 DEF Submit
  <2>2. CASE form.id # NoRowOpen /\ dialog # "alarm group"
    <3> DEFINE id == form.id
               entry == [of |-> form.of, meant |-> Last(opened), hasty |-> Hasty]
    <3>1. id \in FormRow
      BY <2>2
    <3>2. saved' = [saved EXCEPT ![form.id] = entry]
      BY <2>2, Zenon DEF Submit
    <3>3. /\ DOMAIN saved' = FormRow /\ saved'[id] = entry
          /\ \A r \in FormRow \ {id} : saved'[r] = saved[r]
      BY <3>1, <3>2, Zenon
    <3>4. entry.of = form.of /\ entry.meant = opened[Len(opened)] /\ entry.hasty = Hasty
      BY Zenon DEF Last
    <3>5. ~Hasty => form.of = opened[Len(opened)]
      BY <1>1 DEF Hasty
    <3>6. CASE dialog \in AtClick
      <4>1. id = opened[Len(opened)]
        BY <1>1, <3>6
      <4>2. Hasty \/ form.of = id
        BY <3>5, <4>1
      <4>3. EntryKept(entry, id)
        BY <3>4, <3>6, <4>1, <4>2, Zenon DEF EntryKept
      <4> QED BY <3>3, <4>3, Zenon
    <3>7. CASE dialog \in AtAnswer
      <4>1. id = form.of
        BY <3>7
      <4>2. Hasty \/ opened[Len(opened)] = id
        BY <3>5, <4>1
      <4>3. EntryKept(entry, id)
        BY <3>4, <3>7, <4>1, <4>2, Zenon DEF EntryKept
      <4> QED BY <3>3, <4>3, Zenon
    <3> QED BY <3>6, <3>7
  <2> QED BY <2>1, <2>2
<1>4. FormsTyped'
  BY <1>1, <1>2, <1>3
<1>5. FormsFollow'
  BY <1>1, <1>2
<1>6. EditsKeepRows'
  <2>1. dialog' = dialog
    BY <1>1
  <2>2. SUFFICES ASSUME NEW r \in FormRow PROVE EntryKept(saved[r], r)'
    BY Zenon DEF EditsKeepRows, EntryKept
  <2>3. EntryKept(saved[r], r)
    BY Zenon DEF EditsKeepRows, EntryKept
  <2> QED BY <1>3, <2>1, <2>3, Zenon DEF EntryKept
<1> QED BY <1>4, <1>5, <1>6

\* Every row keeps its own values and those the user meant for it, whatever
\* dialogs were opened and in whatever order the answers came, except when
\* the form was submitted before they had come in order.
THEOREM EditsDoKeepRows == FormsSpec => []EditsKeepRows
<1> DEFINE I == FormsTyped /\ FormsFollow /\ EditsKeepRows
<1>1. FormsInit => I
  <2> SUFFICES ASSUME FormsInit PROVE I
    OBVIOUS
  <2>1. FormsTyped /\ FormsFollow
    BY DEF FormsInit, FormsTyped, FormsFollow, BlankForm
  <2>2. ASSUME NEW r \in FormRow PROVE saved[r].of = r /\ saved[r].meant = r
    BY DEF FormsInit
  <2>3. EditsKeepRows
    BY <2>2, Zenon DEF EditsKeepRows
  <2> QED BY <2>1, <2>3
<1>2. I /\ [FormsNext]_formVars => I'
  <2> SUFFICES ASSUME I, [FormsNext]_formVars PROVE I'
    OBVIOUS
  <2>1. ASSUME NEW r \in FormRow,
               \/ EditConsumerRule(r) \/ EditClusterRule(r) \/ EditAlarmGroup(r)
               \/ EditUser(r) \/ ResetPassword(r)
        PROVE  I'
    <3> DEFINE Asked(d) == /\ AskRow(d, r)
                           /\ form' = IF d \in AtClick THEN [form EXCEPT !.id = r]
                                      ELSE form
    <3>1. PICK d : Asked(d)
      <4>1. EditConsumerRule(r) => Asked("consumer rule")
        BY DEF EditConsumerRule, AtClick
      <4>2. EditClusterRule(r) => Asked("cluster rule")
        BY DEF EditClusterRule, AtClick
      <4>3. EditAlarmGroup(r) => Asked("alarm group")
        BY DEF EditAlarmGroup, AtClick
      <4>4. EditUser(r) => Asked("user")
        BY DEF EditUser, AtClick
      <4>5. ResetPassword(r) => Asked("password")
        BY DEF ResetPassword, AtClick
      <4> QED BY <2>1, <4>1, <4>2, <4>3, <4>4, <4>5, Zenon
    <3>2. saved' = saved /\ dialog' = dialog
      BY <3>1 DEF AskRow
    <3> QED BY <3>1, <3>2, AskRowFollows DEF EditsKeepRows
  <2>2. ASSUME NEW i \in awaited, RowArrives(i) PROVE I'
    BY <2>2, RowArrivesFollows DEF RowArrives, EditsKeepRows
  <2>3. ASSUME NEW i \in awaited, RowMissing(i) PROVE I'
    BY <2>3 DEF RowMissing, FormsTyped, FormsFollow, EditsKeepRows
  <2>4. CASE Submit
    BY <2>4, SubmitFollows
  <2>5. CASE UNCHANGED formVars
    BY <2>5 DEF formVars, FormsTyped, FormsFollow, EditsKeepRows
  <2> QED BY <2>1, <2>2, <2>3, <2>4, <2>5 DEF FormsNext
<1>3. I => EditsKeepRows
  OBVIOUS
<1> QED BY <1>1, <1>2, <1>3, PTL DEF FormsSpec

-----------------------------------------------------------------------------
(* Answers. *)

Wishes == [of : AnswerRow \cup {"nobody"}, start : Starts, term : Terms]
IsCurrent(q) == q.element = element /\ q.draw = draw
CurrentSent == \E q \in sent : IsCurrent(q)

\* In one table no request has a higher number than the newest, and only the
\* newest has its number; it is on its way, or what it asked for is shown,
\* or it failed; where all answers are drawn, unless answers crossed.
AnswersReady ==
  /\ wish \in Wishes /\ draw \in Nat /\ answered \in Nat
  /\ \A q \in sent : /\ q.draw \in Nat
                     /\ q.element = element => q.draw <= draw
                     /\ IsCurrent(q) => q.wish = wish
                     /\ place.draws = "all" => q.element = element
  /\ place.draws = "all" => answered <= draw
  /\ ~missed /\ place.draws # "all" => CurrentSent \/ rowsDrawn.wish = wish
  /\ ~missed /\ place.draws = "all" /\ ~crossed
       => CurrentSent \/ (rowsDrawn.wish = wish /\ answered = draw)

OwnFollows ==
  place.draws = "own" /\ rowsDrawn # Nothing => rowsDrawn.wish.of = wish.of

LEMMA RequestReady ==
  ASSUME AnswersReady, NEW w \in Wishes, NEW e, NEW n \in Nat, Request(w, e, n),
         place' = place,
         \/ e = element /\ n = Number
         \/ place.draws # "all" /\ \A q \in sent : e # q.element
  PROVE  AnswersReady'
<1> DEFINE new == [wish |-> w, element |-> e, draw |-> n]
<1>1. /\ wish' = w /\ element' = e /\ draw' = n /\ sent' = sent \cup {new}
      /\ answered' = IF sent = {} THEN 0 ELSE answered
  BY DEF Request, Quiet
<1>2. new.wish = w /\ new.element = e /\ new.draw = n
  OBVIOUS
<1>3. CurrentSent'
  BY <1>1, <1>2 DEF CurrentSent, IsCurrent
<1>4. \A q \in sent : q.element = e => q.draw < n
  BY DEF AnswersReady, Number, Quiet
<1>5. place.draws = "all" => e = element /\ n = Number
  OBVIOUS
<1>6. place.draws = "all" => answered' <= n
  BY <1>1, <1>5 DEF AnswersReady, Number, Quiet
<1>7. answered' \in Nat
  BY <1>1 DEF AnswersReady
<1>8. ASSUME NEW q \in sent'
      PROVE  /\ q.draw \in Nat /\ (q.element = element' => q.draw <= draw')
             /\ (IsCurrent(q)' => q.wish = wish')
             /\ (place'.draws = "all" => q.element = element')
  <2>1. CASE q = new
    BY <2>1, <1>1, <1>2
  <2>2. CASE q \in sent
    BY <2>2, <1>1, <1>4, <1>5 DEF AnswersReady, IsCurrent
  <2> QED BY <2>1, <2>2, <1>1
<1> QED BY <1>1, <1>3, <1>6, <1>7, <1>8 DEF AnswersReady

LEMMA AnswerArrivesReady ==
  ASSUME AnswersReady, OwnFollows, NEW r \in sent, AnswerArrives(r)
  PROVE  AnswersReady' /\ OwnFollows'
<1>1. /\ place' = place /\ wish' = wish /\ element' = element /\ draw' = draw
      /\ missed' = missed /\ sent' = sent \ {r}
      /\ answered' = (IF r.draw > answered THEN r.draw ELSE answered)
      /\ rowsDrawn' = IF place.draws = "all" \/ IsCurrent(r) THEN r ELSE rowsDrawn
  BY Zenon DEF AnswerArrives, Draws, IsCurrent
<1>2. ~crossed' => ~crossed /\ ~(r.draw < answered)
  BY Zenon DEF AnswerArrives
<1>3. /\ r.draw \in Nat /\ (IsCurrent(r) => r.wish = wish)
      /\ place.draws = "all" => r.element = element /\ r.draw <= draw
      /\ answered \in Nat /\ draw \in Nat
  BY DEF AnswersReady
<1>4. ~IsCurrent(r) => (CurrentSent => CurrentSent')
  BY <1>1 DEF CurrentSent, IsCurrent
<1>5. /\ answered' \in Nat /\ wish' \in Wishes /\ draw' \in Nat
      /\ place'.draws = "all" => answered' <= draw'
  BY <1>1, <1>3 DEF AnswersReady
<1>6. \A q \in sent' : /\ q.draw \in Nat
                       /\ q.element = element' => q.draw <= draw'
                       /\ IsCurrent(q)' => q.wish = wish'
                       /\ place'.draws = "all" => q.element = element'
  BY <1>1 DEF AnswersReady, IsCurrent
<1>7. ~missed' /\ place'.draws # "all" => CurrentSent' \/ rowsDrawn'.wish = wish'
  BY <1>1, <1>3, <1>4, Zenon DEF AnswersReady
<1>8. ASSUME ~missed', place'.draws = "all", ~crossed'
      PROVE  CurrentSent' \/ (rowsDrawn'.wish = wish' /\ answered' = draw')
  <2>1. CASE IsCurrent(r)
    <3>1. rowsDrawn'.wish = wish'
      BY <2>1, <1>1, <1>3, Zenon
    <3>2. answered' = draw'
      <4>1. answered <= draw /\ r.draw = draw
        BY <1>8, <1>1, <2>1 DEF AnswersReady, IsCurrent
      <4> QED BY <4>1, <1>1, <1>3
    <3> QED BY <3>1, <3>2
  <2>2. CASE ~IsCurrent(r)
    <3>1. r.draw < draw
      BY <1>8, <1>1, <1>3, <2>2 DEF IsCurrent
    <3>2. CurrentSent \/ answered = draw
      BY <1>8, <1>1, <1>2, Zenon DEF AnswersReady
    <3>3. answered # draw
      BY <1>8, <1>2, <1>3, <3>1
    <3> QED BY <3>2, <3>3, <1>4, <2>2
  <2> QED BY <2>1, <2>2
<1>9. OwnFollows'
  BY <1>1, <1>3 DEF OwnFollows
<1> QED BY <1>5, <1>6, <1>7, <1>8, <1>9 DEF AnswersReady

LEMMA AnswerFailsReady ==
  ASSUME AnswersReady, OwnFollows, NEW r \in sent, AnswerFails(r)
  PROVE  AnswersReady' /\ OwnFollows'
<1>1. /\ place' = place /\ wish' = wish /\ element' = element /\ draw' = draw
      /\ sent' = sent \ {r} /\ answered' = answered /\ rowsDrawn' = rowsDrawn
      /\ crossed' = crossed
  BY Zenon DEF AnswerFails
<1>2. ~missed' => ~missed /\ ~IsCurrent(r)
  BY Zenon DEF AnswerFails, IsCurrent
<1>3. ~IsCurrent(r) => (CurrentSent => CurrentSent')
  BY <1>1 DEF CurrentSent, IsCurrent
<1>4. \A q \in sent' : /\ q.draw \in Nat
                       /\ q.element = element' => q.draw <= draw'
                       /\ IsCurrent(q)' => q.wish = wish'
                       /\ place'.draws = "all" => q.element = element'
  BY <1>1 DEF AnswersReady, IsCurrent
<1>5. OwnFollows'
  BY <1>1 DEF OwnFollows
<1> QED BY <1>1, <1>2, <1>3, <1>4, <1>5, Zenon DEF AnswersReady

LEMMA ClearResultReady ==
  ASSUME AnswersReady, ClearResult
  PROVE  AnswersReady' /\ OwnFollows'
<1>1. /\ place' = place /\ place.draws = "all" /\ wish' = Nobody
      /\ draw' = Number /\ answered' = Number /\ rowsDrawn'.wish = Nobody
      /\ element' = element /\ sent' = sent
  BY DEF ClearResult, ConfigResult, Text, Nothing
<1>2. Number \in Nat /\ Nobody \in Wishes
  <2>1. Number \in Nat
    BY DEF AnswersReady, Number
  <2>2. Nobody \in Wishes
    BY AnswersAssumption DEF Nobody, Wishes
  <2> QED BY <2>1, <2>2
<1>3. \A q \in sent : q.draw \in Nat /\ q.draw < Number /\ q.element = element
  BY <1>1 DEF AnswersReady, Number, Quiet
<1>4. OwnFollows'
  BY <1>1 DEF OwnFollows
<1>5. \A q \in sent' : /\ q.draw \in Nat
                       /\ q.element = element' => q.draw <= draw'
                       /\ IsCurrent(q)' => q.wish = wish'
                       /\ place'.draws = "all" => q.element = element'
  BY <1>1, <1>2, <1>3 DEF IsCurrent
<1> QED BY <1>1, <1>2, <1>4, <1>5 DEF AnswersReady

\* Every place shows what was last asked for there once its answers have
\* come, wherever their order does not matter by itself.
THEOREM AnswersDoFollow == AnswersSpec => []AnswersFollow
<1> DEFINE I == AnswersReady /\ OwnFollows
<1>1. AnswersInit => I
  <2> SUFFICES ASSUME AnswersInit PROVE I
    OBVIOUS
  <2>1. wish = Nobody /\ element = 1 /\ rowsDrawn = Nothing /\ answered = 0
    BY DEF AnswersInit
  <2>2. Nobody \in Wishes /\ Nothing.wish = Nobody
    BY AnswersAssumption DEF Nobody, Wishes, Nothing
  <2>3. CASE place \in OnLoad
    <3>1. place.draws # "all"
      <4>1. \A n, s : Table(n, s).draws # "all" /\ OwnTable(n).draws # "all"
        BY DEF Table, OwnTable
      <4> QED
        BY <2>3, <4>1, Zenon
           DEF OnLoad, ConsumerRuleTable, ClusterRuleTable, AlarmGroupTable,
               UserTable, RoleTable, TopicTable, ExportTable, KsqlTable,
               BrokerTable, ZkTable, ClusterTable, ConsumerTable, MetaTable,
               OffsetTable
    <3>2. draw = 1 /\ sent = {[wish |-> Nobody, element |-> 1, draw |-> 1]}
      BY <2>3 DEF AnswersInit
    <3> QED BY <2>1, <2>2, <3>1, <3>2
            DEF AnswersReady, OwnFollows, IsCurrent, CurrentSent
  <2>4. CASE place \notin OnLoad
    <3>1. draw = 0 /\ sent = {}
      BY <2>4 DEF AnswersInit
    <3> QED BY <2>1, <2>2, <3>1 DEF AnswersReady, OwnFollows, IsCurrent, CurrentSent
  <2> QED BY <2>3, <2>4
<1>2. I /\ [AnswersNext]_answerVars => I'
  <2> SUFFICES ASSUME I, [AnswersNext]_answerVars PROVE I'
    OBVIOUS
  <2>1. Number \in Nat /\ wish \in Wishes
    BY DEF AnswersReady, Number
  <2>2. ASSUME NEW s \in Starts, Turn(s) PROVE I'
    <3> DEFINE w == [wish EXCEPT !.start = s]
    <3>1. w \in Wishes /\ w.of = wish.of
      BY <2>1 DEF Wishes
    <3>2. Request(w, element, Number) /\ place' = place /\ rowsDrawn' = rowsDrawn
      BY <2>2 DEF Turn, Ask
    <3>3. wish' = w
      BY <3>2 DEF Request
    <3> QED BY <2>1, <3>1, <3>2, <3>3, RequestReady DEF OwnFollows
  <2>3. ASSUME NEW t \in Terms, Search(t) PROVE I'
    <3> DEFINE w == [wish EXCEPT !.start = 0, !.term = t]
    <3>1. w \in Wishes /\ w.of = wish.of
      BY <2>1, AnswersAssumption DEF Wishes
    <3>2. Request(w, element, Number) /\ place' = place /\ rowsDrawn' = rowsDrawn
      BY <2>3 DEF Search, Ask
    <3>3. wish' = w
      BY <3>2 DEF Request
    <3> QED BY <2>1, <3>1, <3>2, <3>3, RequestReady DEF OwnFollows
  <2>4. ASSUME NEW r \in AnswerRow, OpenDetail(r) PROVE I'
    <3> DEFINE w == [Nobody EXCEPT !.of = r]
    <3>1. w \in Wishes
      BY AnswersAssumption DEF Wishes, Nobody
    <3>2. Request(w, element, Number) /\ place' = place /\ place.draws = "all"
      BY <2>4 DEF OpenDetail, Ask
    <3> QED BY <2>1, <3>1, <3>2, RequestReady DEF OwnFollows
  <2>5. ASSUME NEW r \in AnswerRow, OpenGroup(r) PROVE I'
    <3> DEFINE w == [Nobody EXCEPT !.of = r]
    <3>1. w \in Wishes
      BY AnswersAssumption DEF Wishes, Nobody
    <3>2. place.draws # "all" /\ place' = place /\ rowsDrawn' = Nothing
      BY <2>5 DEF OpenGroup, GroupTopicTable, OwnTable
    <3>3. PICK e : Request(w, e, 1) /\ \A q \in sent : e # q.element
      BY <2>5 DEF OpenGroup
    <3> QED BY <3>1, <3>2, <3>3, RequestReady DEF OwnFollows
  <2>6. CASE ClearResult
    BY <2>6, ClearResultReady
  <2>7. ASSUME NEW r \in sent, AnswerArrives(r) \/ AnswerFails(r) PROVE I'
    BY <2>7, AnswerArrivesReady, AnswerFailsReady
  <2>8. CASE UNCHANGED answerVars
    BY <2>8 DEF answerVars, AnswersReady, OwnFollows, IsCurrent, CurrentSent
  <2> QED BY <2>2, <2>3, <2>4, <2>5, <2>6, <2>7, <2>8 DEF AnswersNext
<1>3. I => AnswersFollow
  <2> SUFFICES ASSUME I, sent = {}, ~missed, place.draws = "all" => ~crossed
               PROVE  rowsDrawn.wish = wish
    BY DEF AnswersFollow, OwnFollows, Quiet
  <2>1. ~CurrentSent
    BY DEF CurrentSent
  <2> QED BY <2>1, Zenon DEF AnswersReady
<1> QED BY <1>1, <1>2, <1>3, PTL DEF AnswersSpec

-----------------------------------------------------------------------------
(* Boxes. *)

FillRequests == [what : {"fill"}, of : BoxRow, served : BOOLEAN, seen : SUBSET Box,
                 clean : BOOLEAN]
ChangeRequests == [what : {"add", "delete", "flip"}, of : BoxRow \cup {NoOwner},
                   box : Box, read : BOOLEAN, flag : BOOLEAN]

BoxesTyped ==
  /\ panel \in {"roles", "tree", "switches"} /\ holder \in BoxRow \cup {NoOwner}
  /\ boxes \in [of : BoxRow \cup {NoOwner}, ticks : SUBSET Box] /\ touched \subseteq Box
  /\ held \in [BoxRow -> SUBSET Box]
  /\ flying \subseteq FillRequests \cup ChangeRequests
  /\ \A q \in BoxRequests : q.what = "flip" <=> panel = "switches"

\* What a request will have done to its box when it is served.
Turns(q, on) ==
  IF q.what = "flip" THEN (IF q.read THEN q.flag ELSE q.box \in held[boxes.of]) <=> ~on
  ELSE q.what = "add" <=> on

Watched == IF panel = "roles" THEN touched ELSE Box

\* Boxes drawn from a clean answer are as stored.
FillsClean ==
  \A q \in Fills : q.clean => BoxRequests = {} /\ (q.served => q.seen = held[q.of])

\* Every box that differs from what is stored has one request on its way
\* that will make up for it.
BoxesPending ==
  /\ \A q \in BoxRequests :
       /\ q.of = boxes.of /\ Turns(q, q.box \in boxes.ticks)
       /\ \A p \in BoxRequests : p.box = q.box => p = q
  /\ \A b \in Watched :
       (\A q \in BoxRequests : q.box # b) => (b \in boxes.ticks <=> b \in held[boxes.of])

BoxesReady ==
  BoxesTyped /\ FillsClean /\ (~muddled /\ boxes.of # NoOwner => BoxesPending)

LEMMA FlightKinds ==
  ASSUME BoxesTyped
  PROVE  /\ \A q \in Fills : q \in flying /\ q \in FillRequests /\ q.what = "fill"
         /\ \A q \in BoxRequests : q \in flying /\ q \in ChangeRequests /\ q.what # "fill"
         /\ \A q \in flying : q \in Fills \/ q \in BoxRequests
  BY DEF BoxesTyped, Fills, BoxRequests, FillRequests, ChangeRequests

LEMMA AskBoxesReady ==
  ASSUME BoxesReady, NEW r \in BoxRow, AskBoxes(r)
  PROVE  BoxesReady'
<1>1. /\ panel' = panel /\ boxes' = boxes /\ touched' = touched /\ held' = held
      /\ muddled' = muddled /\ holder' = r /\ flying' = flying \cup {Fill(r)}
  BY Zenon DEF AskBoxes
<1>2. /\ Fill(r) \in FillRequests /\ Fill(r).what = "fill" /\ ~Fill(r).served
      /\ Fill(r).clean => BoxRequests = {}
  BY DEF Fill, FillRequests
<1>3. BoxRequests' = BoxRequests /\ Fills' = Fills \cup {Fill(r)}
  BY <1>1, <1>2 DEF BoxRequests, Fills
<1>4. BoxesTyped'
  BY <1>1, <1>2, <1>3 DEF BoxesReady, BoxesTyped
<1>5. FillsClean'
  BY <1>1, <1>2, <1>3 DEF BoxesReady, FillsClean
<1>6. BoxesPending' <=> BoxesPending
  BY <1>1, <1>3, Zenon DEF BoxesPending, Turns, Watched
<1> QED BY <1>1, <1>4, <1>5, <1>6, Zenon DEF BoxesReady

LEMMA BoxesArriveReady ==
  ASSUME BoxesReady, NEW q \in Fills, BoxesArrive(q)
  PROVE  BoxesReady'
<1>1. /\ panel' = panel /\ holder' = holder /\ held' = held /\ touched' = {}
      /\ boxes' = [of |-> q.of, ticks |-> Ticked(q)] /\ flying' = flying \ {q}
      /\ q.served /\ (~muddled' => q.clean)
  BY Zenon DEF BoxesArrive
<1>2. q \in FillRequests /\ q.what = "fill"
  BY FlightKinds DEF BoxesReady
<1>3. BoxRequests' = BoxRequests /\ Fills' \subseteq Fills
  BY <1>1 DEF BoxRequests, Fills
<1>4. /\ boxes' \in [of : BoxRow \cup {NoOwner}, ticks : SUBSET Box]
      /\ boxes'.of = q.of /\ (panel # "roles" => boxes'.ticks = q.seen)
  BY <1>1, <1>2 DEF Ticked, FillRequests
<1>5. BoxesTyped'
  BY <1>1, <1>3, <1>4 DEF BoxesReady, BoxesTyped
<1>6. FillsClean'
  BY <1>1, <1>3 DEF BoxesReady, FillsClean
<1>7. ASSUME ~muddled' PROVE BoxesPending'
  <2>1. BoxRequests = {} /\ q.seen = held[q.of]
    BY <1>1, <1>7 DEF BoxesReady, FillsClean
  <2> QED BY <1>1, <1>3, <1>4, <2>1 DEF BoxesPending, Watched
<1> QED BY <1>5, <1>6, <1>7, Zenon DEF BoxesReady

LEMMA ClickBoxReady ==
  ASSUME BoxesReady, NEW b \in Box, ClickBox(b)
  PROVE  BoxesReady'
<1> PICK ticks : ticks = IF b \in boxes.ticks THEN boxes.ticks \ {b}
                        ELSE boxes.ticks \cup {b}
  OBVIOUS
<1> PICK new : new = BoxRequest(b, ticks)
  OBVIOUS
<1>1. /\ panel' = panel /\ holder' = holder /\ held' = held /\ touched' = touched \cup {b}
      /\ boxes' = [boxes EXCEPT !.ticks = ticks] /\ boxes.of # NoOwner
      /\ flying' = BoxRequests \cup {[q EXCEPT !.clean = FALSE] : q \in Fills} \cup {new}
  BY Zenon DEF ClickBox
<1>2. ~muddled' => /\ ~muddled /\ \A q \in BoxRequests : q.box # b
                   /\ panel = "roles" => holder = boxes.of
  BY Zenon DEF ClickBox
<1>3. \A q \in Fills : LET c == [q EXCEPT !.clean = FALSE]
                       IN  c \in FillRequests /\ c.what = "fill" /\ ~c.clean
  BY FlightKinds DEF BoxesReady, FillRequests
<1>4. /\ boxes' \in [of : BoxRow \cup {NoOwner}, ticks : SUBSET Box]
      /\ boxes'.of = boxes.of /\ boxes'.ticks = ticks
  BY <1>1 DEF BoxesReady, BoxesTyped
<1>5. /\ new \in ChangeRequests /\ new.of = Owner /\ new.box = b /\ ~new.read
      /\ new.what # "fill" /\ (new.what = "flip" <=> panel = "switches")
      /\ panel # "switches" => (new.what = "add" <=> b \in ticks)
  BY DEF BoxesReady, BoxesTyped, BoxRequest, ChangeRequests, Owner
<1>6. BoxRequests' = BoxRequests \cup {new}
  <2>1. \A q \in BoxRequests : q.what # "fill"
    BY FlightKinds DEF BoxesReady
  <2>2. \A q : q \in BoxRequests' <=> q \in flying' /\ q.what # "fill"
    BY DEF BoxRequests, Fills
  <2>3. \A q \in flying' : q \in BoxRequests \/ q.what = "fill" \/ q = new
    BY <1>1, <1>3
  <2>4. BoxRequests \cup {new} \subseteq flying'
    BY <1>1
  <2> QED BY <2>1, <2>2, <2>3, <2>4, <1>5
<1>7. \A q \in Fills' : ~q.clean
  BY <1>1, <1>3, <1>5, FlightKinds DEF BoxesReady, Fills
<1>8. flying' \subseteq FillRequests \cup ChangeRequests
  BY <1>1, <1>3, <1>5, FlightKinds DEF BoxesReady
<1>9. BoxesTyped'
  BY <1>1, <1>4, <1>5, <1>6, <1>8 DEF BoxesReady, BoxesTyped
<1>10. FillsClean'
  BY <1>7 DEF FillsClean
<1>11. ASSUME ~muddled' PROVE BoxesPending'
  <2>1. BoxesPending /\ \A q \in BoxRequests : q.box # b
    BY <1>1, <1>2, <1>11, Zenon DEF BoxesReady
  <2>2. new.of = boxes'.of
    BY <1>2, <1>4, <1>5, <1>11 DEF Owner
  <2>3. \A c : c # b => (c \in boxes'.ticks <=> c \in boxes.ticks)
    BY <1>4
  <2>4. b \in ticks <=> b \notin boxes.ticks
    OBVIOUS
  <2>5. Turns(new, new.box \in boxes.ticks)'
    <3>1. CASE panel = "switches"
      <4>1. b \in boxes.ticks <=> b \in held[boxes.of]
        BY <2>1, <3>1 DEF BoxesPending, Watched
      <4>2. (b \in held'[boxes'.of]) <=> ~(b \in ticks)
        BY <4>1, <1>1, <1>4, <2>4
      <4>3. new.what = "flip" /\ ~new.read /\ new.box = b /\ boxes'.ticks = ticks
        BY <1>4, <1>5, <3>1
      <4> QED BY <4>2, <4>3, Zenon DEF Turns
    <3>2. CASE panel # "switches"
      <4>1. /\ new.what # "flip" /\ new.box = b /\ boxes'.ticks = ticks
            /\ new.what = "add" <=> b \in ticks
        BY <1>4, <1>5, <3>2
      <4> QED BY <4>1, Zenon DEF Turns
    <3> QED BY <3>1, <3>2
  <2>6. ASSUME NEW q \in BoxRequests
        PROVE  q.of = boxes'.of /\ Turns(q, q.box \in boxes.ticks)'
    <3>1. q.of = boxes.of /\ Turns(q, q.box \in boxes.ticks) /\ q.box # b
      BY <2>1 DEF BoxesPending
    <3> QED BY <3>1, <1>1, <1>4, <2>3 DEF Turns
  <2>7. \A p, q \in BoxRequests' : p.box = q.box => p = q
    BY <1>5, <1>6, <2>1 DEF BoxesPending
  <2>8. ASSUME NEW c \in Watched', \A q \in BoxRequests' : q.box # c
        PROVE  c \in boxes'.ticks <=> c \in held'[boxes'.of]
    <3>1. c # b /\ c \in Watched /\ \A q \in BoxRequests : q.box # c
      BY <1>1, <1>5, <1>6, <2>8 DEF Watched
    <3>2. c \in boxes.ticks <=> c \in held[boxes.of]
      BY <3>1, <2>1, Zenon DEF BoxesPending
    <3> QED BY <3>1, <3>2, <1>1, <1>4, <2>3
  <2> QED BY <1>6, <2>2, <1>5, <2>5, <2>6, <2>7, <2>8 DEF BoxesPending
<1> QED BY <1>9, <1>10, <1>11, Zenon DEF BoxesReady

LEMMA ServeFillReady ==
  ASSUME BoxesReady, NEW q \in flying, ServeFill(q),
         UNCHANGED <<panel, holder, boxes, touched, muddled>>
  PROVE  BoxesReady'
<1> PICK served : served = [q EXCEPT !.served = TRUE, !.seen = held[q.of]]
  OBVIOUS
<1>1. q \in Fills /\ flying' = (flying \ {q}) \cup {served} /\ held' = held
  BY DEF ServeFill
<1>2. q \in FillRequests
  BY <1>1, FlightKinds DEF BoxesReady
<1>3. /\ served \in FillRequests /\ served.what = "fill"
      /\ served.clean = q.clean /\ served.seen = held[q.of] /\ served.of = q.of
  BY <1>2 DEF BoxesReady, BoxesTyped, FillRequests
<1>4. BoxRequests' = BoxRequests /\ Fills' = (Fills \ {q}) \cup {served}
  BY <1>1, <1>3, FlightKinds DEF BoxesReady, BoxRequests, Fills
<1>5. BoxesTyped'
  BY <1>1, <1>3, <1>4 DEF BoxesReady, BoxesTyped
<1>6. FillsClean'
  BY <1>1, <1>3, <1>4 DEF BoxesReady, FillsClean
<1>7. BoxesPending' <=> BoxesPending
  BY <1>1, <1>4, Zenon DEF BoxesPending, Turns, Watched
<1> QED BY <1>5, <1>6, <1>7, Zenon DEF BoxesReady

\* A change request is served: its box is stored as it is ticked.
LEMMA ServedReady ==
  ASSUME BoxesReady, NEW q \in BoxRequests, NEW on \in BOOLEAN,
         Stored(q.of, q.box, on), flying' = flying \ {q},
         Turns(q, TRUE) => on, Turns(q, FALSE) => ~on,
         UNCHANGED <<panel, holder, boxes, touched, muddled>>
  PROVE  BoxesReady'
<1>1. q \in ChangeRequests /\ q.what # "fill" /\ q \in flying
  BY FlightKinds DEF BoxesReady
<1>2. held' = [held EXCEPT ![q.of] = IF on THEN @ \cup {q.box} ELSE @ \ {q.box}]
  BY DEF Stored
<1>3. /\ held' \in [BoxRow -> SUBSET Box]
      /\ \A r \in BoxRow : \A b : r # q.of \/ b # q.box => (b \in held'[r] <=> b \in held[r])
      /\ q.of \in BoxRow => (q.box \in held'[q.of] <=> on)
  BY <1>1, <1>2 DEF BoxesReady, BoxesTyped, ChangeRequests
<1>4. BoxRequests' = BoxRequests \ {q} /\ Fills' = Fills
  BY <1>1 DEF BoxRequests, Fills
<1>5. BoxesTyped'
  BY <1>3, <1>4 DEF BoxesReady, BoxesTyped
<1>6. FillsClean'
  BY <1>4 DEF BoxesReady, FillsClean
<1>7. ASSUME ~muddled', boxes'.of # NoOwner PROVE BoxesPending'
  <2>1. BoxesPending /\ boxes.of \in BoxRow
    BY <1>7 DEF BoxesReady, BoxesTyped
  <2>2. q.of = boxes.of /\ Turns(q, q.box \in boxes.ticks)
    BY <2>1 DEF BoxesPending
  <2>3. q.box \in boxes.ticks <=> on
    <3>1. CASE q.box \in boxes.ticks
      BY <2>2, <3>1, Zenon DEF Turns
    <3>2. CASE q.box \notin boxes.ticks
      BY <2>2, <3>2, Zenon DEF Turns
    <3> QED BY <3>1, <3>2
  <2>4. q.box \in held'[boxes.of] <=> q.box \in boxes.ticks
    BY <1>3, <2>1, <2>2, <2>3
  <2>5. ASSUME NEW p \in BoxRequests'
        PROVE  /\ p.of = boxes'.of /\ Turns(p, p.box \in boxes.ticks)'
               /\ \A o \in BoxRequests' : o.box = p.box => o = p
    <3>1. p \in BoxRequests /\ p # q
      BY <1>4
    <3>2. /\ p.of = boxes.of /\ Turns(p, p.box \in boxes.ticks) /\ p.box # q.box
          /\ \A o \in BoxRequests : o.box = p.box => o = p
      BY <2>1, <3>1 DEF BoxesPending
    <3>3. p.box \in held'[boxes.of] <=> p.box \in held[boxes.of]
      BY <1>3, <2>1, <3>2
    <3>4. Turns(p, p.box \in boxes.ticks)'
      BY <3>2, <3>3 DEF Turns
    <3> QED BY <1>4, <3>2, <3>4
  <2>6. ASSUME NEW b \in Watched, \A p \in BoxRequests' : p.box # b
        PROVE  b \in boxes.ticks <=> b \in held'[boxes.of]
    <3>1. CASE b = q.box
      BY <2>4, <3>1
    <3>2. CASE b # q.box
      <4>1. \A p \in BoxRequests : p.box # b
        BY <1>4, <2>6, <3>2
      <4>2. b \in boxes.ticks <=> b \in held[boxes.of]
        BY <2>1, <4>1, Zenon DEF BoxesPending
      <4> QED BY <4>2, <1>3, <2>1, <3>2
    <3> QED BY <3>1, <3>2
  <2>7. Watched' = Watched /\ boxes' = boxes
    BY DEF Watched
  <2> QED BY <2>5, <2>6, <2>7, Zenon DEF BoxesPending
<1> QED BY <1>5, <1>6, <1>7, Zenon DEF BoxesReady

LEMMA ReadSwitchReady ==
  ASSUME BoxesReady, NEW q \in flying, ReadSwitch(q),
         UNCHANGED <<panel, holder, boxes, touched, muddled>>
  PROVE  BoxesReady'
<1> PICK flag \in BOOLEAN : flag <=> q.box \in held[q.of]
  BY Zenon
<1>0. (q.box \in held[q.of]) = flag
  BY Zenon
<1> PICK read : read = [q EXCEPT !.read = TRUE, !.flag = flag]
  OBVIOUS
<1>1. /\ q \in BoxRequests /\ q.what = "flip" /\ ~q.read
      /\ flying' = (flying \ {q}) \cup {read} /\ held' = held
  BY <1>0, Zenon DEF ReadSwitch
<1>2. q \in ChangeRequests
  BY <1>1, FlightKinds DEF BoxesReady
<1>3. /\ read \in ChangeRequests /\ read.what = "flip" /\ read.read /\ read.box = q.box
      /\ read.of = q.of /\ (read.flag <=> q.box \in held[q.of])
  <2>1. /\ read \in ChangeRequests /\ read.what = q.what /\ read.read = TRUE
        /\ read.box = q.box /\ read.of = q.of /\ read.flag = flag
    BY <1>2 DEF ChangeRequests
  <2> QED BY <1>1, <2>1, Zenon
<1>4. BoxRequests' = (BoxRequests \ {q}) \cup {read} /\ Fills' = Fills
  BY <1>1, <1>3, FlightKinds DEF BoxesReady, BoxRequests, Fills
<1>5. BoxesTyped'
  BY <1>1, <1>3, <1>4 DEF BoxesReady, BoxesTyped
<1>6. FillsClean'
  BY <1>1, <1>4 DEF BoxesReady, FillsClean
<1>7. ASSUME ~muddled', boxes'.of # NoOwner PROVE BoxesPending'
  <2>1. BoxesPending
    BY <1>7 DEF BoxesReady
  <2>2. q.of = boxes.of /\ Turns(q, q.box \in boxes.ticks)
    BY <1>1, <2>1 DEF BoxesPending
  <2>3. (q.box \in held[boxes.of]) <=> ~(q.box \in boxes.ticks)
    BY <1>1, <2>2, Zenon DEF Turns
  <2>4. Turns(read, read.box \in boxes.ticks)'
    <3>1. read.flag <=> ~(read.box \in boxes.ticks)
      BY <1>3, <2>2, <2>3
    <3> QED BY <1>3, <3>1, Zenon DEF Turns
  <2>5. ASSUME NEW p \in BoxRequests' PROVE p.of = boxes.of /\ Turns(p, p.box \in boxes.ticks)'
    <3>1. CASE p = read
      BY <3>1, <1>3, <2>2, <2>4
    <3>2. CASE p \in BoxRequests
      BY <3>2, <1>1, <2>1, Zenon DEF BoxesPending, Turns
    <3> QED BY <3>1, <3>2, <1>4
  <2>6. \A p, o \in BoxRequests' : o.box = p.box => o = p
    <3>1. \A p \in BoxRequests : p.box = q.box => p = q
      BY <1>1, <2>1, Zenon DEF BoxesPending
    <3>2. \A p, o \in BoxRequests : o.box = p.box => o = p
      BY <2>1, Zenon DEF BoxesPending
    <3>3. SUFFICES ASSUME NEW p \in BoxRequests', NEW o \in BoxRequests', o.box = p.box
                   PROVE  o = p
      OBVIOUS
    <3>4. /\ p = read \/ (p \in BoxRequests /\ p # q)
          /\ o = read \/ (o \in BoxRequests /\ o # q)
      BY <1>4
    <3> QED BY <3>1, <3>2, <3>3, <3>4, <1>3
  <2>7. ASSUME NEW b \in Watched, \A p \in BoxRequests' : p.box # b
        PROVE  b \in boxes.ticks <=> b \in held[boxes.of]
    <3>1. \A p \in BoxRequests : p.box # b
      BY <1>3, <1>4, <2>7
    <3> QED BY <2>1, <3>1, Zenon DEF BoxesPending
  <2>8. Watched' = Watched /\ boxes' = boxes /\ held' = held
    BY <1>1 DEF Watched
  <2> QED BY <2>5, <2>6, <2>7, <2>8, Zenon DEF BoxesPending
<1> QED BY <1>5, <1>6, <1>7, Zenon DEF BoxesReady

LEMMA LoseReady ==
  ASSUME BoxesReady, NEW q \in flying, Lose(q)
  PROVE  BoxesReady'
<1>1. /\ flying' = flying \ {q} /\ (~muddled' => ~muddled /\ q \notin BoxRequests)
      /\ panel' = panel /\ holder' = holder /\ boxes' = boxes /\ touched' = touched
      /\ held' = held
  BY Zenon DEF Lose
<1>2. BoxRequests' \subseteq BoxRequests /\ Fills' \subseteq Fills
  BY <1>1 DEF BoxRequests, Fills
<1>3. BoxesTyped'
  BY <1>1, <1>2 DEF BoxesReady, BoxesTyped
<1>4. FillsClean'
  BY <1>1, <1>2 DEF BoxesReady, FillsClean
<1>5. q \notin BoxRequests => BoxRequests' = BoxRequests
  BY <1>1 DEF BoxRequests, Fills
<1>6. q \notin BoxRequests => (BoxesPending' <=> BoxesPending)
  BY <1>1, <1>5, Zenon DEF BoxesPending, Turns, Watched
<1> QED BY <1>1, <1>3, <1>4, <1>6, Zenon DEF BoxesReady

\* When all is quiet the boxes of a user, of a role and of the alarm tables
\* are ticked as the server has stored them, except where requests got lost
\* or met.
THEOREM BoxesAreStored == BoxesSpec => []BoxesStored
<1>1. BoxesInit => BoxesReady
  <2> SUFFICES ASSUME BoxesInit PROVE BoxesReady
    OBVIOUS
  <2>1. BoxRequests = {} /\ Fills = {} /\ boxes.of = NoOwner /\ flying = {}
    BY DEF BoxesInit, BoxRequests, Fills
  <2>2. BoxesTyped
    BY <2>1, BoxesAssumption DEF BoxesInit, BoxesTyped
  <2> QED BY <2>1, <2>2 DEF BoxesReady, FillsClean
<1>2. BoxesReady /\ [BoxesNext]_boxVars => BoxesReady'
  <2> SUFFICES ASSUME BoxesReady, [BoxesNext]_boxVars PROVE BoxesReady'
    OBVIOUS
  <2>1. ASSUME NEW r \in BoxRow, OpenRoles(r) \/ OpenRoleTree(r) \/ DrawSwitches(r)
        PROVE  BoxesReady'
    BY <2>1, AskBoxesReady, Zenon DEF OpenRoles, OpenRoleTree, DrawSwitches
  <2>2. ASSUME NEW b \in Box, ClickBox(b) PROVE BoxesReady'
    BY <2>2, ClickBoxReady
  <2>3. ASSUME NEW q \in flying, BoxesArrive(q) PROVE BoxesReady'
    BY <2>3, BoxesArriveReady DEF BoxesArrive
  <2>4. ASSUME NEW q \in flying, Serve(q) PROVE BoxesReady'
    <3>1. UNCHANGED <<panel, holder, boxes, touched, muddled>>
      BY <2>4 DEF Serve
    <3>2. CASE ServeFill(q)
      BY <3>1, <3>2, ServeFillReady
    <3>3. CASE ChangeUserRole(q) \/ ChangeRoleResource(q)
      <4>1. /\ q \in BoxRequests /\ panel # "switches" /\ flying' = flying \ {q}
            /\ Stored(q.of, q.box, q.what = "add")
        BY <3>3 DEF ChangeUserRole, ChangeRoleResource
      <4>2. q.what # "flip"
        BY <4>1 DEF BoxesReady, BoxesTyped
      <4>3. (Turns(q, TRUE) => q.what = "add") /\ (Turns(q, FALSE) => q.what # "add")
        BY <4>2, Zenon DEF Turns
      <4> QED BY <3>1, <4>1, <4>3, ServedReady
    <3>4. CASE ReadSwitch(q)
      BY <3>1, <3>4, ReadSwitchReady
    <3>5. CASE WriteSwitch(q)
      <4>1. /\ q \in BoxRequests /\ q.what = "flip" /\ q.read /\ flying' = flying \ {q}
            /\ Stored(q.of, q.box, ~q.flag)
        BY <3>5 DEF WriteSwitch
      <4>2. (Turns(q, TRUE) => ~q.flag) /\ (Turns(q, FALSE) => ~~q.flag)
        BY <4>1, Zenon DEF Turns
      <4> QED BY <3>1, <4>1, <4>2, ServedReady
    <3> QED BY <2>4, <3>2, <3>3, <3>4, <3>5 DEF Serve
  <2>5. ASSUME NEW q \in flying, Lose(q) PROVE BoxesReady'
    BY <2>5, LoseReady
  <2>6. CASE UNCHANGED boxVars
    BY <2>6 DEF boxVars, BoxesReady, BoxesTyped, FillsClean, BoxesPending, Turns,
                Watched, BoxRequests, Fills
  <2> QED BY <2>1, <2>2, <2>3, <2>4, <2>5, <2>6 DEF BoxesNext
<1>3. BoxesReady => BoxesStored
  <2> SUFFICES ASSUME BoxesReady, flying = {}, ~muddled, boxes.of # NoOwner,
                      NEW b \in Watched
               PROVE  b \in boxes.ticks <=> b \in held[boxes.of]
    BY DEF BoxesStored, Watched
  <2>1. BoxesPending /\ BoxRequests = {}
    BY DEF BoxesReady, BoxRequests, Fills
  <2> QED BY <2>1 DEF BoxesPending
<1> QED BY <1>1, <1>2, <1>3, PTL DEF BoxesSpec

-----------------------------------------------------------------------------
(* The forms with select boxes send what can be read in them. *)

Sheets == {CreateForm, AddForm, ConfigForm, ManagerForm, MockForm, ConsumerForm,
           ClusterForm}

\* The boxes of the form have texts, and the topics on offer are those of the
\* consumer group that is sent.
PicksReady ==
  /\ sheet \in Sheets /\ submitted \in BOOLEAN
  /\ DOMAIN label = Boxes /\ DOMAIN hidden = Boxes
  /\ sheet = AddForm => topicsOf.box = hidden["consumer group"]
  /\ sheet = AddForm => topicsOf = [box |-> topicsOf.box, topic |-> topicsOf.topic]

\* FormAsShown, part by part.
LabelsTrue ==
  \A b \in Boxes \ reused :
    label[b] = hidden[b] \/ (sheet = AddForm /\ b = "topic" /\ label[b] = Empty)
TopicOfGroup ==
  sheet = AddForm /\ label["topic"] # Empty => topicsOf.topic = hidden["consumer group"]
ValueSeen ==
  sheet = CreateForm /\ submitted /\ hidden["type"] # "Topic" =>
    StoredUnder \in filled \cap Shown

PicksInv == PicksReady /\ LabelsTrue /\ TopicOfGroup /\ ValueSeen

LEMMA SheetNames ==
  /\ CreateForm.name = "create" /\ AddForm.name = "add" /\ ConfigForm.name = "config"
  /\ ManagerForm.name = "manager" /\ MockForm.name = "mock"
  /\ ConsumerForm.name = "modify" /\ ClusterForm.name = "history"
  /\ {"consumer group", "topic"} \subseteq AddForm.boxes /\ "type" \in CreateForm.boxes
BY DEF CreateForm, AddForm, ConfigForm, ManagerForm, MockForm, ConsumerForm,
       ClusterForm, Form

-----------------------------------------------------------------------------
\* An empty page.
LEMMA NewPageInv ==
  ASSUME NewPage, UNCHANGED sheet, sheet \in Sheets
  PROVE  PicksInv'
<1>1. /\ sheet' = sheet /\ label' = [b \in Boxes |-> Empty]
      /\ hidden' = [b \in Boxes |-> Empty] /\ topicsOf' = [box |-> Empty, topic |-> Empty]
      /\ ~submitted' /\ submitted' = FALSE /\ Boxes' = Boxes
  BY DEF NewPage, Boxes
<1>2. \A b \in Boxes : label'[b] = Empty /\ hidden'[b] = Empty
  BY <1>1
<1>3. sheet = AddForm => "consumer group" \in Boxes /\ "topic" \in Boxes
  BY SheetNames DEF Boxes
<1>4. topicsOf'.box = Empty /\ topicsOf'.topic = Empty
  BY <1>1
<1>5. PicksReady'
  BY <1>1, <1>2, <1>3, <1>4 DEF PicksReady
<1>6. LabelsTrue'
  BY <1>1, <1>2 DEF LabelsTrue
<1>7. TopicOfGroup' /\ ValueSeen'
  BY <1>1, <1>2, <1>3 DEF TopicOfGroup, ValueSeen
<1> QED BY <1>5, <1>6, <1>7 DEF PicksInv

\* A pick in any box.
LEMMA PickInv ==
  ASSUME PicksInv, NEW b \in Boxes, NEW i, NEW text, Pick(b, i, text)
  PROVE  PicksInv'
<1> PICK read : read = Read(b, i, text)
  OBVIOUS
<1> DEFINE Rebuilt == sheet = AddForm /\ b = "consumer group"
<1>1. /\ ~submitted /\ Offers(b) /\ sheet' = sheet /\ submitted' = submitted
      /\ hidden' = [hidden EXCEPT ![b] = text]
      /\ label' = IF Rebuilt THEN [[label EXCEPT ![b] = read] EXCEPT !["topic"] = Empty]
                  ELSE [label EXCEPT ![b] = read]
      /\ topicsOf' = IF Rebuilt THEN [topicsOf EXCEPT !.box = text]
                     ELSE IF b = "topic" THEN [topicsOf EXCEPT !.topic = topicsOf.box]
                     ELSE topicsOf
      /\ reused' = (IF read = text THEN reused \ {b} ELSE reused \cup {b})
                     \ (IF Rebuilt THEN {"topic"} ELSE {})
  BY Zenon DEF Pick, Take
<1>2. DOMAIN label = Boxes /\ DOMAIN hidden = Boxes /\ Boxes' = Boxes
  BY <1>1 DEF PicksInv, PicksReady, Boxes
<1>3. DOMAIN hidden' = Boxes /\ hidden'[b] = text
      /\ \A c \in Boxes \ {b} : hidden'[c] = hidden[c]
  BY <1>1, <1>2
<1>4. sheet = AddForm => "consumer group" \in Boxes /\ "topic" \in Boxes
  BY SheetNames DEF Boxes
<1>5. /\ DOMAIN label' = Boxes
      /\ ~Rebuilt => label'[b] = read /\ \A c \in Boxes \ {b} : label'[c] = label[c]
      /\ Rebuilt => /\ label'[b] = read /\ label'["topic"] = Empty
                    /\ \A c \in Boxes \ {b, "topic"} : label'[c] = label[c]
  <2>1. CASE Rebuilt
    BY <1>1, <1>2, <1>4, <2>1
  <2>2. CASE ~Rebuilt
    BY <1>1, <1>2, <2>2
  <2> QED BY <2>1, <2>2
<1>6. LabelsTrue'
  <2> SUFFICES ASSUME NEW c \in Boxes, c \notin reused'
               PROVE  label'[c] = hidden'[c] \/ (sheet = AddForm /\ c = "topic" /\ label'[c] = Empty)
    BY <1>1, <1>2 DEF LabelsTrue
  <2>1. CASE c = b
    <3>1. read = text
      BY <1>1, <2>1
    <3> QED BY <1>3, <1>5, <2>1, <3>1
  <2>2. CASE Rebuilt /\ c = "topic"
    BY <1>5, <2>2
  <2>3. CASE c # b /\ ~(Rebuilt /\ c = "topic")
    <3>1. c \notin reused
      BY <1>1, <2>3
    <3>2. label[c] = hidden[c] \/ (sheet = AddForm /\ c = "topic" /\ label[c] = Empty)
      BY <3>1 DEF PicksInv, LabelsTrue
    <3> QED BY <1>3, <1>5, <2>3, <3>2
  <2> QED BY <2>1, <2>2, <2>3
<1>7. ASSUME sheet = AddForm
      PROVE  /\ topicsOf'.box = hidden'["consumer group"]
             /\ topicsOf' = [box |-> topicsOf'.box, topic |-> topicsOf'.topic]
             /\ label'["topic"] # Empty => topicsOf'.topic = hidden'["consumer group"]
  <2>1. /\ topicsOf.box = hidden["consumer group"]
        /\ topicsOf = [box |-> topicsOf.box, topic |-> topicsOf.topic]
        /\ label["topic"] # Empty => topicsOf.topic = hidden["consumer group"]
    BY <1>7 DEF PicksInv, PicksReady, TopicOfGroup
  <2>2. CASE b = "consumer group"
    <3>1. topicsOf' = [box |-> text, topic |-> topicsOf.topic]
      BY <1>1, <1>7, <2>1, <2>2
    <3>2. label'["topic"] = Empty
      BY <1>5, <1>7, <2>2
    <3> QED BY <1>3, <2>2, <3>1, <3>2
  <2>3. CASE b = "topic"
    <3>1. topicsOf' = [box |-> topicsOf.box, topic |-> topicsOf.box]
      BY <1>1, <1>7, <2>1, <2>3
    <3> QED BY <1>3, <1>4, <1>7, <2>1, <2>3, <3>1
  <2>4. CASE b # "consumer group" /\ b # "topic"
    BY <1>1, <1>3, <1>4, <1>5, <1>7, <2>1, <2>4
  <2> QED BY <2>2, <2>3, <2>4
<1>8. PicksReady' /\ TopicOfGroup' /\ ValueSeen'
  BY <1>1, <1>2, <1>3, <1>5, <1>7 DEF PicksInv, PicksReady, TopicOfGroup, ValueSeen
<1> QED BY <1>6, <1>8 DEF PicksInv

\* A form that is sent: of these only a new rule says something new.
LEMMA SubmitsInv ==
  ASSUME PicksInv, Submits
  PROVE  PicksInv'
<1>1. Sent
  BY DEF Submits, CreateRule, AddRule, AddGroup, TestGroup, AlterTopic, MockMessage,
         ModifyConsumerRule, ModifyClusterRule
<1>2. /\ UNCHANGED <<sheet, options, label, hidden, topicsOf, filled, mode, reused>>
      /\ submitted' = TRUE
  BY <1>1 DEF Sent
<1>3. PicksReady' /\ LabelsTrue' /\ TopicOfGroup'
  BY <1>2 DEF PicksInv, PicksReady, LabelsTrue, TopicOfGroup, Boxes
<1>4. ASSUME sheet = CreateForm, hidden["type"] # "Topic"
      PROVE  (StoredUnder \in filled \cap Shown)'
  <2>1. CreateRule
    BY <1>4, SheetNames DEF Submits, AddRule, AddGroup, TestGroup, AlterTopic,
       MockMessage, ModifyConsumerRule, ModifyClusterRule
  <2>2. TypeShows(hidden["type"]) \subseteq filled
    BY <2>1 DEF CreateRule, Complete
  <2>3. StoredUnder \in TypeShows(hidden["type"])
    BY <1>4 DEF StoredUnder, TypeShows
  <2>4. Shown' = TypeShows(hidden["type"]) /\ StoredUnder' = StoredUnder
    <3>1. CreateForm # ConfigForm /\ CreateForm # ManagerForm
      BY SheetNames
    <3>2. Shown = TypeShows(hidden["type"])
      BY <3>1, <1>4 DEF Shown
    <3>3. Shown' = Shown
      BY <1>2 DEF Shown
    <3> QED BY <3>2, <3>3, <1>2 DEF StoredUnder
  <2> QED BY <1>2, <2>2, <2>3, <2>4
<1> QED BY <1>2, <1>3, <1>4 DEF PicksInv, ValueSeen

LEMMA PicksNextInv == PicksInv /\ [PicksNext]_pickVars => PicksInv'
<1> SUFFICES ASSUME PicksInv, [PicksNext]_pickVars PROVE PicksInv'
  OBVIOUS
<1>1. ASSUME NEW b \in Boxes, NEW offer \in Lists[b], NEW i \in DOMAIN offer,
             Pick(b, i, offer[i])
      PROVE  PicksInv'
  BY <1>1, PickInv
<1>2. ASSUME NEW f \in sheet.fields, TypeInto(f) PROVE PicksInv'
  BY <1>2 DEF TypeInto, PicksInv, PicksReady, LabelsTrue, TopicOfGroup, ValueSeen, Boxes
<1>3. ASSUME NEW m, Radio(m) PROVE PicksInv'
  BY <1>3 DEF Radio, PicksInv, PicksReady, LabelsTrue, TopicOfGroup, ValueSeen, Boxes
<1>4. CASE Answered
  <2>1. CASE /\ submitted' = FALSE
             /\ UNCHANGED <<sheet, options, label, hidden, topicsOf, filled, mode, reused>>
    BY <2>1 DEF PicksInv, PicksReady, LabelsTrue, TopicOfGroup, ValueSeen, Boxes
  <2>2. CASE NewPage /\ UNCHANGED sheet
    BY <2>2, NewPageInv DEF PicksInv, PicksReady
  <2> QED BY <1>4, <2>1, <2>2 DEF Answered
<1>5. CASE UNCHANGED pickVars
  BY <1>5 DEF pickVars, PicksInv, PicksReady, LabelsTrue, TopicOfGroup, ValueSeen,
              Boxes, StoredUnder, Shown
<1> QED BY <1>1, <1>2, <1>3, <1>4, <1>5, SubmitsInv DEF PicksNext

\* Whatever was picked, typed and sent before, and whatever lists the server
\* answered, what is sent is what can be read in the form.
THEOREM FormsAreAsShown == PicksSpec => []FormAsShown
<1>1. PicksInit => PicksInv
  <2> SUFFICES ASSUME PicksInit PROVE PicksInv
    OBVIOUS
  <2>1. /\ label = [b \in Boxes |-> Empty] /\ hidden = [b \in Boxes |-> Empty]
        /\ topicsOf = [box |-> Empty, topic |-> Empty] /\ submitted = FALSE
        /\ sheet \in Sheets
    BY DEF PicksInit, Sheets
  <2>2. \A b \in Boxes : label[b] = Empty /\ hidden[b] = Empty
    BY <2>1
  <2>3. sheet = AddForm => "consumer group" \in Boxes /\ "topic" \in Boxes
    BY SheetNames DEF Boxes
  <2>4. topicsOf.box = Empty /\ topicsOf.topic = Empty
    BY <2>1
  <2>5. PicksReady
    BY <2>1, <2>2, <2>3, <2>4 DEF PicksReady
  <2>6. LabelsTrue /\ TopicOfGroup /\ ValueSeen
    BY <2>1, <2>2, <2>3 DEF LabelsTrue, TopicOfGroup, ValueSeen
  <2> QED BY <2>5, <2>6 DEF PicksInv
<1>2. PicksInv => FormAsShown
  BY DEF PicksInv, LabelsTrue, TopicOfGroup, ValueSeen, FormAsShown
<1> QED BY <1>1, <1>2, PicksNextInv, PTL DEF PicksSpec

-----------------------------------------------------------------------------
(* The grids the date picker draws are whole, and the picker together with *)
(* the page's two handlers implements RangeChooser.                        *)

Ends == Day \cup {NoDate}
Texts == Day \cup {Garbage}

\* The type of the widget, its text fields written out as a record.
Widget ==
  [start : Day, end : Ends, oldStart : Ends, oldEnd : Ends,
   showing : BOOLEAN, calendars : BOOLEAN,
   left : Months \cup {NoMonth}, right : Int \cup {NoMonth},
   text : [start : Texts, end : Texts],
   focus : Sides \cup {"none"}, typed : BOOLEAN,
   leaving : BOOLEAN, applyOn : BOOLEAN]

Linked(p) == IF p.left = NoMonth THEN p.right = NoMonth
             ELSE p.right = p.left + 1
Ordered(p) == p.end # NoDate => p.start <= p.end

\* What show() took down for hide() to fall back to.
Remembers(p) ==
  p.showing => /\ p.left # NoMonth
               /\ p.oldStart \in Day /\ p.oldEnd \in Day
               /\ p.oldStart <= p.oldEnd

Sound(p) ==
  /\ p \in Widget /\ Linked(p) /\ Ordered(p) /\ Remembers(p)
  /\ ~p.showing => p.end # NoDate

\* The part of the widget only show() and hide() write.
Frame(p, q) ==
  q.showing = p.showing /\ q.oldStart = p.oldStart /\ q.oldEnd = p.oldEnd

\* The outcome of the methods: months are in view, the dates are s and e.
Dated(p, q, s, e) ==
  /\ q \in Widget /\ Linked(q) /\ q.left # NoMonth
  /\ Frame(p, q) /\ q.start = s /\ q.end = e
Rendered(p, q) == Dated(p, q, p.start, p.end)

\* A step that touches neither the dates nor the months.
Cosmetic(p, q) ==
  /\ q \in Widget /\ Frame(p, q) /\ q.start = p.start /\ q.end = p.end
  /\ q.left = p.left /\ q.right = p.right

\* A step of the user in the shown widget, and one that commits a field.
Browsed(p, q) ==
  /\ q \in Widget /\ Linked(q) /\ Frame(p, q) /\ Ordered(q)
  /\ p.left # NoMonth => q.left # NoMonth
InputsEdited(p, q) == Browsed(p, q) /\ (p.end # NoDate => q.end # NoDate)

-----------------------------------------------------------------------------
LEMMA DaysAreIntegers == Day \subseteq Int /\ NoDate \notin Day /\ Garbage \notin Day
<1>1. \A r \in DOMAIN Ranges : Ranges[r][1] \in Int /\ Ranges[r][2] \in Int
  BY PickerAssumption
<1>2. Picks \subseteq Int /\ NoDate \notin Int /\ Garbage \notin Int
  BY PickerAssumption
<1>3. ASSUME NEW d \in Day PROVE d \in Int
  BY <1>1, <1>2 DEF Day
<1> QED BY <1>2, <1>3

\* setEndDate never ends before it starts.
LEMMA Later ==
  ASSUME NEW a \in Day, NEW b \in Day, NEW e, e = IF b < a THEN a ELSE b
  PROVE  e \in Day /\ a <= e /\ e # NoDate
<1>1. a \in Int /\ b \in Int
  BY DaysAreIntegers
<1>2. e \in Day
  OBVIOUS
<1>3. a <= e
  BY <1>1
<1> QED BY <1>2, <1>3, DaysAreIntegers

LEMMA MonthIsOne == ASSUME NEW d \in Day PROVE MonthOf(d) \in Months
<1>1. \E m \in Months : FirstOfMonth[m] <= d /\ d < FirstOfMonth[m + 1]
  BY PickerAssumption
<1> QED BY <1>1 DEF MonthOf

LEMMA LeafRecord ==
  ASSUME NEW p \in Widget, NEW l \in Months, NEW r \in Int, NEW q,
         r = l + 1, q = [p EXCEPT !.left = l, !.right = r]
  PROVE  Rendered(p, q)
<1>1. l \in Int /\ NoMonth \notin Int
  BY PickerAssumption
<1>2. /\ q \in Widget /\ q.left = l /\ q.right = r
      /\ Frame(p, q) /\ q.start = p.start /\ q.end = p.end
  BY DEF Widget, Frame
<1>3. l # NoMonth
  BY <1>1
<1> QED BY <1>2, <1>3 DEF Rendered, Dated, Linked

LEMMA MonthsInViewRenders ==
  ASSUME NEW p \in Widget, Linked(p)
  PROVE  Rendered(p, UpdateMonthsInView(p))
<1>1. /\ MonthOf(p.start) \in Months
      /\ p.end # NoDate => MonthOf(p.end) \in Months
  BY MonthIsOne DEF Widget, Ends
<1>2. Months \subseteq Int /\ NoMonth \notin Int
  BY PickerAssumption
<1> DEFINE q == [p EXCEPT !.left = MonthOf(p.start),
                          !.right = MonthOf(p.start) + 1]
<1>3. CASE UpdateMonthsInView(p) = p
  <2>1. p.left # NoMonth
    <3>1. CASE MonthOf(p.start) \in {p.left, p.right}
      BY <1>1, <1>2, <3>1 DEF Linked, Widget
    <3>2. CASE MonthOf(p.start) \notin {p.left, p.right}
      <4>1. p = q
        BY <1>3, <3>2 DEF UpdateMonthsInView
      <4>2. p.left = MonthOf(p.start)
        BY <4>1 DEF Widget
      <4> QED BY <1>1, <1>2, <4>2
    <3> QED BY <3>1, <3>2
  <2> QED BY <1>3, <2>1 DEF Rendered, Dated, Frame
<1>4. CASE UpdateMonthsInView(p) = q
  <2>0. PICK m \in Int : m = MonthOf(p.start)
    BY <1>1, <1>2, Zenon
  <2>1. MonthOf(p.start) + 1 \in Int
    BY <2>0
  <2> QED BY <1>1, <1>4, <2>1, LeafRecord, Zenon
<1>5. UpdateMonthsInView(p) = p \/ UpdateMonthsInView(p) = q
  BY DEF UpdateMonthsInView
<1> QED BY <1>3, <1>4, <1>5

LEMMA Trans ==
  ASSUME NEW p, NEW q, NEW r, NEW s, NEW e, Dated(p, q, s, e), Rendered(q, r)
  PROVE  Dated(p, r, s, e)
BY DEF Dated, Rendered, Frame

LEMMA CosmeticRenders ==
  ASSUME NEW p, NEW q, Cosmetic(p, q), Linked(p), p.left # NoMonth
  PROVE  Rendered(p, q)
BY DEF Cosmetic, Rendered, Dated, Linked

LEMMA SetStartDateDates ==
  ASSUME NEW p \in Widget, Linked(p), NEW d \in Day
  PROVE  Dated(p, SetStartDate(p, d), d, p.end)
<1> DEFINE q == [p EXCEPT !.start = d]
<1>1. q \in Widget /\ Linked(q) /\ Frame(p, q) /\ q.start = d /\ q.end = p.end
  BY DEF Widget, Linked, Frame
<1>2. Rendered(q, SetStartDate(p, d))
  <2> HIDE DEF q
  <2>1. Rendered(q, UpdateMonthsInView(q))
    BY <1>1, MonthsInViewRenders, Zenon
  <2> QED BY <2>1 DEF SetStartDate, q
<1> HIDE DEF q
<1> QED BY <1>1, <1>2 DEF Rendered, Dated, Frame

LEMMA SetEndDateDates ==
  ASSUME NEW p \in Widget, Linked(p), NEW d \in Day
  PROVE  Dated(p, SetEndDate(p, d), p.start, IF d < p.start THEN p.start ELSE d)
<1> DEFINE e == IF d < p.start THEN p.start ELSE d
           q == [p EXCEPT !.end = e]
<1>1. e \in Day
  BY DEF Widget
<1>2. q \in Widget /\ Linked(q) /\ Frame(p, q) /\ q.start = p.start /\ q.end = e
  <2> HIDE DEF e
  <2> QED BY <1>1 DEF Widget, Linked, Frame, Ends
<1>3. Rendered(q, SetEndDate(p, d))
  <2>1. Rendered(q, UpdateMonthsInView(q))
    <3> HIDE DEF q
    <3> QED BY <1>2, MonthsInViewRenders, Zenon
  <2> QED BY <2>1 DEF SetEndDate
<1> HIDE DEF q, e
<1>4. Dated(p, SetEndDate(p, d), p.start, e)
  BY <1>2, <1>3 DEF Rendered, Dated, Frame
<1> QED BY <1>4 DEF e

LEMMA UpdateCalendarsRenders ==
  ASSUME NEW p \in Widget, Linked(p), p.left # NoMonth
  PROVE  Rendered(p, UpdateCalendars(p))
<1>1. Cosmetic(p, p) /\ Cosmetic(p, [p EXCEPT !.calendars = TRUE])
  BY DEF Cosmetic, Frame, Widget
<1>2. \/ UpdateCalendars(p) = p
      \/ UpdateCalendars(p) = [p EXCEPT !.calendars = TRUE]
  BY DEF UpdateCalendars, CalculateChosenLabel
<1> QED BY <1>1, <1>2, CosmeticRenders

LEMMA UpdateFormInputsCosmetic ==
  ASSUME NEW p \in Widget
  PROVE  Cosmetic(p, UpdateFormInputs(p))
<1> DEFINE t == [start |-> p.start,
                 end |-> IF p.end = NoDate THEN p.text.end ELSE p.end]
           b == p.end # NoDate /\ p.start <= p.end
<1>1. t \in [start : Texts, end : Texts] /\ b \in BOOLEAN
  BY DEF Widget, Ends, Texts
<1>2. UpdateFormInputs(p) = p \/ UpdateFormInputs(p) = [p EXCEPT !.text = t, !.applyOn = b]
  BY DEF UpdateFormInputs
<1> HIDE DEF t, b
<1>3. Cosmetic(p, p) /\ Cosmetic(p, [p EXCEPT !.text = t, !.applyOn = b])
  BY <1>1 DEF Cosmetic, Frame, Widget
<1> QED BY <1>2, <1>3

LEMMA UpdateViewRenders ==
  ASSUME NEW p \in Widget, Linked(p)
  PROVE  Rendered(p, UpdateView(p))
<1> DEFINE a == UpdateMonthsInView(p)
           b == UpdateCalendars(a)
<1>1. Rendered(p, a)
  BY MonthsInViewRenders
<1>2. a \in Widget /\ Linked(a) /\ a.left # NoMonth
  BY <1>1 DEF Rendered, Dated
<1>3. Rendered(a, b)
  <2> HIDE DEF a
  <2> QED BY <1>2, UpdateCalendarsRenders, Zenon
<1>4. b \in Widget /\ Linked(b) /\ b.left # NoMonth
  BY <1>3 DEF Rendered, Dated
<1>5. Rendered(b, UpdateFormInputs(b))
  <2> HIDE DEF b
  <2> QED BY <1>4, UpdateFormInputsCosmetic, CosmeticRenders
<1>6. UpdateView(p) = UpdateFormInputs(b)
  BY DEF UpdateView
<1> HIDE DEF a, b
<1> QED BY <1>1, <1>3, <1>5, <1>6 DEF Rendered, Dated, Frame

\* A view that is updated keeps what the step before it established.
LEMMA ViewOf ==
  ASSUME NEW p, NEW q \in Widget, Linked(q), Frame(p, q), Ordered(q),
         p.end # NoDate => q.end # NoDate
  PROVE  InputsEdited(p, UpdateView(q))
<1>1. Rendered(q, UpdateView(q))
  BY UpdateViewRenders
<1> QED BY <1>1 DEF Rendered, Dated, InputsEdited, Browsed, Frame, Ordered

LEMMA FormInputsChangedEdits ==
  ASSUME NEW p \in Widget, Linked(p), Ordered(p), NEW side \in Sides
  PROVE  InputsEdited(p, FormInputsChanged(p, side))
<1> DEFINE valid == p.text.start # Garbage /\ p.text.end # Garbage
           start == IF side = "end" /\ p.text.end < p.text.start
                    THEN p.text.end ELSE p.text.start
           q0 == SetStartDate(p, start)
           q == SetEndDate(q0, p.text.end)
           r == IF side = "end" THEN [q EXCEPT !.text.start = q.start]
                ELSE [q EXCEPT !.text.end = q.end]
<1>1. FormInputsChanged(p, side) = UpdateView(IF valid THEN r ELSE p)
  BY DEF FormInputsChanged
<1>2. CASE ~valid
  <2>1. InputsEdited(p, UpdateView(p))
    BY ViewOf DEF Frame
  <2> QED BY <1>1, <1>2, <2>1
<1>3. CASE valid
  <2>1. start \in Day /\ p.text.end \in Day
    BY <1>3 DEF Widget, Texts
  <2>2. Dated(p, q0, start, p.end)
    <3> HIDE DEF start
    <3> QED BY <2>1, SetStartDateDates
  <2> HIDE DEF start
  <2>3. q0 \in Widget /\ Linked(q0) /\ q0.start = start /\ Frame(p, q0)
    BY <2>2 DEF Dated
  <2> HIDE DEF q0
  <2>4. Dated(q0, q, start, IF p.text.end < start THEN start ELSE p.text.end)
    <3>1. Dated(q0, q, q0.start, IF p.text.end < q0.start THEN q0.start ELSE p.text.end)
      BY <2>1, <2>3, SetEndDateDates, Zenon
    <3> QED BY <2>3, <3>1
  <2> HIDE DEF q
  <2>5. PICK e \in Day : Dated(q0, q, start, e) /\ start <= e
    <3>1. PICK e : e = IF p.text.end < start THEN start ELSE p.text.end
      OBVIOUS
    <3>2. e \in Day /\ start <= e
      BY <2>1, <3>1, Later, Zenon
    <3> QED BY <2>4, <3>1, <3>2
  <2>6. q \in Widget /\ q.start = start /\ q.end = e /\ Frame(p, q) /\ Linked(q)
    BY <2>3, <2>5 DEF Dated, Frame
  <2>7. r \in Widget /\ r.start = start /\ r.end = e /\ Frame(q, r) /\ Linked(r)
    <3>1. CASE side = "end"
      BY <2>1, <2>6, <3>1 DEF Widget, Texts, Frame, Linked
    <3>2. CASE side # "end"
      BY <2>5, <2>6, <3>2 DEF Widget, Texts, Frame, Linked
    <3> QED BY <3>1, <3>2
  <2> HIDE DEF r
  <2>8. Frame(p, r) /\ Ordered(r) /\ r.end # NoDate
    BY <2>5, <2>6, <2>7, DaysAreIntegers DEF Frame, Ordered
  <2>9. InputsEdited(p, UpdateView(r))
    BY <2>7, <2>8, ViewOf
  <2> QED BY <1>1, <1>3, <2>9
<1> QED BY <1>2, <1>3

LEMMA FormInputsBlurredEdits ==
  ASSUME NEW p \in Widget, Linked(p), Ordered(p)
  PROVE  InputsEdited(p, FormInputsBlurred(p))
<1>1. CASE p.end = NoDate /\ p.text.end # Garbage
  <2> DEFINE q == SetEndDate(p, p.text.end)
  <2>1. p.text.end \in Day /\ p.start \in Day
    BY <1>1 DEF Widget, Texts
  <2>2. Dated(p, q, p.start, IF p.text.end < p.start THEN p.start ELSE p.text.end)
    BY <2>1, SetEndDateDates
  <2> HIDE DEF q
  <2>0. PICK e : e = IF p.text.end < p.start THEN p.start ELSE p.text.end
    OBVIOUS
  <2>e. e \in Day /\ p.start <= e
    BY <2>0, <2>1, Later, Zenon
  <2>3. q \in Widget /\ Linked(q) /\ Frame(p, q) /\ Ordered(q)
    BY <2>0, <2>2, <2>e DEF Dated, Ordered
  <2>4. InputsEdited(p, UpdateView(q))
    BY <1>1, <2>3, ViewOf
  <2>5. FormInputsBlurred(p) = UpdateView(q)
    BY <1>1 DEF FormInputsBlurred, q
  <2> QED BY <2>4, <2>5
<1>2. CASE ~(p.end = NoDate /\ p.text.end # Garbage)
  BY <1>2 DEF FormInputsBlurred, InputsEdited, Browsed, Frame
<1> QED BY <1>1, <1>2

LEMMA FormInputsFocusedBrowses ==
  ASSUME NEW p \in Widget, Linked(p), Ordered(p),
         NEW side \in Sides
  PROVE  Browsed(p, FormInputsFocused(p, side))
<1>1. CASE side = "end"
  <2> DEFINE q == [[p EXCEPT !.focus = side] EXCEPT !.end = NoDate]
             r == SetStartDate(q, q.start)
  <2>1. q \in Widget /\ Linked(q) /\ Frame(p, q) /\ q.end = NoDate
        /\ q.start \in Day /\ q.left = p.left
    BY DEF Widget, Linked, Frame, Ends
  <2>2. FormInputsFocused(p, side) = UpdateView(SetStartDate([q EXCEPT !.end = NoDate], [p EXCEPT !.focus = side].start))
    BY <1>1 DEF FormInputsFocused
  <2>3. [q EXCEPT !.end = NoDate] = q /\ [p EXCEPT !.focus = side].start = q.start
    BY DEF Widget
  <2>4. FormInputsFocused(p, side) = UpdateView(r)
    BY <2>2, <2>3
  <2> HIDE DEF q
  <2>5. Dated(q, r, q.start, NoDate)
    BY <2>1, SetStartDateDates
  <2> HIDE DEF r
  <2>6. r \in Widget /\ Linked(r) /\ Frame(p, r) /\ r.end = NoDate
    BY <2>1, <2>5 DEF Dated, Frame
  <2>7. InputsEdited(q, UpdateView(r))
    BY <2>1, <2>5, <2>6, ViewOf DEF Dated, Ordered
  <2> QED BY <2>1, <2>4, <2>7 DEF InputsEdited, Browsed, Frame
<1>2. CASE side # "end"
  <2>1. FormInputsFocused(p, side) = [p EXCEPT !.focus = side]
    BY <1>2 DEF FormInputsFocused
  <2>2. Cosmetic(p, [p EXCEPT !.focus = side])
    BY DEF Cosmetic, Frame, Widget
  <2> QED BY <2>1, <2>2 DEF Cosmetic, Browsed, Linked, Ordered
<1> QED BY <1>1, <1>2

-----------------------------------------------------------------------------
(* The steps. *)

LEMMA CosmeticBrowses ==
  ASSUME NEW p, NEW q, Cosmetic(p, q), Linked(p), Ordered(p)
  PROVE  InputsEdited(p, q)
BY DEF Cosmetic, InputsEdited, Browsed, Linked, Ordered

LEMMA ClickDateBrowses ==
  ASSUME Sound(picker), NEW d \in Picks, ClickDate(d)
  PROVE  Browsed(picker, picker')
<1> DEFINE a == [picker EXCEPT !.end = NoDate]
           s == SetStartDate(a, d)
           e == SetEndDate(picker, d)
           q == IF picker.end # NoDate \/ d < picker.start THEN s ELSE e
<1>0. picker \in Widget /\ Linked(picker) /\ Ordered(picker) /\ d \in Day
      /\ picker.start \in Day
  BY DEF Sound, Day, Widget
<1>1. Browsed(picker, s)
  <2>1. a \in Widget /\ Linked(a) /\ Frame(picker, a) /\ a.end = NoDate
    BY <1>0 DEF Widget, Linked, Frame, Ends
  <2> HIDE DEF a
  <2>2. Dated(a, s, d, NoDate)
    BY <1>0, <2>1, SetStartDateDates
  <2> HIDE DEF s
  <2> QED BY <2>1, <2>2 DEF Dated, Browsed, Frame, Ordered
<1>2. Browsed(picker, e)
  <2>1. PICK x : x = IF d < picker.start THEN picker.start ELSE d
    OBVIOUS
  <2>2. Dated(picker, e, picker.start, x)
    <3> HIDE DEF e
    <3>1. Dated(picker, SetEndDate(picker, d), picker.start,
                IF d < picker.start THEN picker.start ELSE d)
      BY <1>0, SetEndDateDates
    <3> QED BY <2>1, <3>1 DEF e
  <2>3. picker.start <= x
    BY <1>0, <2>1, Later, Zenon
  <2> HIDE DEF e
  <2> QED BY <2>2, <2>3 DEF Dated, Browsed, Ordered
<1> HIDE DEF s, e
<1>3. Browsed(picker, q)
  BY <1>1, <1>2
<1> HIDE DEF q
<1>4. Rendered(q, UpdateView(q))
  BY <1>3, UpdateViewRenders DEF Browsed
<1>5. PICK v : v = UpdateView(q)
  OBVIOUS
<1>6. Browsed(picker, v) /\ Linked(v) /\ Ordered(v)
  BY <1>3, <1>4, <1>5 DEF Rendered, Dated, Browsed, Frame, Ordered
<1>7. PICK b \in BOOLEAN : picker' = [v EXCEPT !.leaving = b]
  BY <1>5 DEF ClickDate, q, s, e, a
<1>8. Cosmetic(v, picker')
  BY <1>6, <1>7 DEF Browsed, Cosmetic, Frame, Widget
<1> QED BY <1>6, <1>8 DEF Browsed, Cosmetic, Frame, Linked, Ordered

LEMMA RenderBrowses ==
  ASSUME NEW p, Sound(p), p.showing, NEW q, Rendered(p, q)
  PROVE  Browsed(p, q)
BY DEF Sound, Rendered, Dated, Browsed, Ordered

LEMMA HoverAndPressBrowse ==
  ASSUME Sound(picker), picker.showing,
         \/ \E d \in Picks : HoverDate(d)
         \/ \E r \in DOMAIN Ranges : HoverRange(r)
         \/ \E side \in Sides, d \in Picks \cup {Garbage} : Type(side, d)
         \/ MouseLeave \/ ClickCustomRange
  PROVE  Browsed(picker, picker')
<1>0. picker \in Widget /\ Linked(picker) /\ Ordered(picker)
  BY DEF Sound
<1>1. ASSUME NEW side \in Sides, NEW d \in Texts, NEW b \in BOOLEAN
      PROVE  /\ Cosmetic(picker, [picker EXCEPT !.text[side] = d])
             /\ Cosmetic(picker, [picker EXCEPT !.text[side] = d, !.typed = b])
  <2>1. CASE side = "start"
    BY <1>0, <2>1 DEF Cosmetic, Frame, Widget
  <2>2. CASE side = "end"
    BY <1>0, <2>2 DEF Cosmetic, Frame, Widget
  <2> QED BY <2>1, <2>2 DEF Sides
<1>2. Picks \subseteq Texts /\ Garbage \in Texts
  BY DEF Texts, Day
<1>3. CASE \E d \in Picks : HoverDate(d)
  <2>1. PICK d \in Picks : HoverDate(d)
    BY <1>3
  <2>2. PICK side \in Sides : \/ picker' = picker
                             \/ picker' = [picker EXCEPT !.text[side] = d]
    BY <2>1 DEF HoverDate, Sides
  <2>3. Cosmetic(picker, picker)
    BY <1>0 DEF Cosmetic, Frame
  <2> QED BY <1>0, <1>1, <1>2, <2>2, <2>3, CosmeticBrowses DEF InputsEdited
<1>4. CASE \E r \in DOMAIN Ranges : HoverRange(r)
  <2>1. PICK r \in DOMAIN Ranges : HoverRange(r)
    BY <1>4
  <2>2. PICK t : /\ picker' = [picker EXCEPT !.text = t]
                 /\ t = [start |-> Ranges[r][1], end |-> Ranges[r][2]]
    BY <2>1 DEF HoverRange
  <2>3. t \in [start : Texts, end : Texts]
    BY <2>2 DEF Texts, Day
  <2>4. Cosmetic(picker, picker')
    BY <1>0, <2>2, <2>3 DEF Cosmetic, Frame, Widget
  <2> QED BY <1>0, <2>4, CosmeticBrowses DEF InputsEdited
<1>5. CASE \E side \in Sides, d \in Picks \cup {Garbage} : Type(side, d)
  <2>1. PICK side \in Sides, d \in Texts :
          picker' = [picker EXCEPT !.text[side] = d, !.typed = TRUE]
    BY <1>2, <1>5 DEF Type
  <2>2. Cosmetic(picker, picker')
    BY <1>1, <2>1
  <2> QED BY <1>0, <2>2, CosmeticBrowses DEF InputsEdited
<1>6. CASE MouseLeave
  <2>1. Cosmetic(picker, picker')
    BY <1>0, <1>6, UpdateFormInputsCosmetic DEF MouseLeave
  <2> QED BY <1>0, <2>1, CosmeticBrowses DEF InputsEdited
<1>7. CASE ClickCustomRange
  <2>1. Cosmetic(picker, picker')
    BY <1>0, <1>7 DEF ClickCustomRange, Cosmetic, Frame, Widget
  <2> QED BY <1>0, <2>1, CosmeticBrowses DEF InputsEdited
<1> QED BY <1>3, <1>4, <1>5, <1>6, <1>7

LEMMA LeafBrowses ==
  ASSUME Sound(picker), picker.showing, ClickPrev \/ ClickNext
  PROVE  Browsed(picker, picker')
<1>1. PICK n \in {-1, 1} : Leaf(n)
  BY DEF ClickPrev, ClickNext
<1>2. /\ picker \in Widget /\ picker.left \in Months /\ picker.right = picker.left + 1
      /\ Ordered(picker)
  BY DEF Sound, Linked, Widget, Remembers
<1>3. PICK l \in Months, r \in Int :
        /\ l = picker.left + n /\ r = picker.right + n /\ r = l + 1
  BY <1>1, <1>2, PickerAssumption DEF Leaf
<1> DEFINE q == [picker EXCEPT !.left = l, !.right = r]
<1>4. Rendered(picker, q)
  BY <1>2, <1>3, LeafRecord
<1>5. picker' = UpdateCalendars(q)
  BY <1>1, <1>3 DEF Leaf
<1> HIDE DEF q
<1>6. Rendered(q, UpdateCalendars(q))
  BY <1>4, UpdateCalendarsRenders DEF Rendered, Dated
<1>7. Rendered(picker, picker')
  BY <1>4, <1>5, <1>6 DEF Rendered, Dated, Frame
<1> QED BY <1>7, RenderBrowses

LEMMA FocusBrowses ==
  ASSUME Sound(picker), picker.showing,
         HoverCustomRange \/ \E side \in Sides : Focus(side)
  PROVE  Browsed(picker, picker')
<1>1. picker \in Widget /\ Linked(picker) /\ Ordered(picker)
  BY DEF Sound
<1>2. CASE HoverCustomRange
  BY <1>1, <1>2, UpdateViewRenders, RenderBrowses DEF HoverCustomRange
<1>3. CASE \E side \in Sides : Focus(side)
  BY <1>1, <1>3, FormInputsFocusedBrowses DEF Focus
<1> QED BY <1>2, <1>3

\* A field that is left, and one that is committed, keep a whole range whole.
LEMMA LeaveEdits ==
  ASSUME Sound(picker), Enter \/ Leave \/ LeaveUnnoticed
  PROVE  InputsEdited(picker, picker')
<1>0. /\ picker \in Widget /\ Linked(picker) /\ Ordered(picker)
      /\ picker.focus \in Sides \cup {"none"}
  BY DEF Sound, Widget
<1>1. CASE Enter
  <2>1. picker.focus \in Sides
    BY <1>0, <1>1 DEF Enter, AtRest
  <2>2. PICK v : v = FormInputsChanged(picker, picker.focus)
    OBVIOUS
  <2>3. picker' = [v EXCEPT !.typed = FALSE]
    BY <1>1, <2>2 DEF Enter
  <2>4. InputsEdited(picker, v)
    BY <1>0, <2>1, <2>2, FormInputsChangedEdits
  <2>5. Cosmetic(v, picker')
    BY <2>3, <2>4 DEF InputsEdited, Browsed, Cosmetic, Frame, Widget
  <2> QED BY <2>4, <2>5 DEF InputsEdited, Browsed, Cosmetic, Frame, Linked, Ordered
<1>2. CASE Leave
  <2>1. PICK focused \in BOOLEAN :
          LET p == IF focused THEN picker ELSE [picker EXCEPT !.focus = "none"]
              q == IF picker.typed THEN FormInputsChanged(p, picker.focus) ELSE p
          IN  picker' = [FormInputsBlurred(q) EXCEPT
                           !.focus = "none", !.typed = FALSE, !.leaving = FALSE]
    BY <1>2 DEF Leave
  <2>2. PICK p : p = IF focused THEN picker ELSE [picker EXCEPT !.focus = "none"]
    OBVIOUS
  <2>3. Cosmetic(picker, p)
    BY <1>0, <2>2 DEF Cosmetic, Frame, Widget
  <2>4. InputsEdited(picker, p) /\ p \in Widget /\ Linked(p) /\ Ordered(p)
    BY <1>0, <2>3, CosmeticBrowses DEF InputsEdited, Browsed
  <2>5. PICK q : q = IF picker.typed THEN FormInputsChanged(p, picker.focus) ELSE p
    OBVIOUS
  <2>6. InputsEdited(p, q)
    <3>1. picker.focus \in Sides
      BY <1>0, <1>2 DEF Leave, AtRest
    <3>2. InputsEdited(p, FormInputsChanged(p, picker.focus))
      BY <2>4, <3>1, FormInputsChangedEdits
    <3>3. InputsEdited(p, p)
      BY <2>4 DEF InputsEdited, Browsed, Frame
    <3> QED BY <2>5, <3>2, <3>3
  <2>7. PICK v : v = FormInputsBlurred(q)
    OBVIOUS
  <2>8. InputsEdited(q, v)
    BY <2>6, <2>7, FormInputsBlurredEdits DEF InputsEdited, Browsed
  <2>9. picker' = [v EXCEPT !.focus = "none", !.typed = FALSE, !.leaving = FALSE]
    BY <2>1, <2>2, <2>5, <2>7
  <2>10. Cosmetic(v, picker')
    BY <2>8, <2>9 DEF InputsEdited, Browsed, Cosmetic, Frame, Widget
  <2> QED BY <2>4, <2>6, <2>8, <2>10
          DEF InputsEdited, Browsed, Cosmetic, Frame, Linked, Ordered
<1>3. CASE LeaveUnnoticed
  <2>1. Cosmetic(picker, picker')
    BY <1>0, <1>3 DEF LeaveUnnoticed, Cosmetic, Frame, Widget
  <2> QED BY <1>0, <2>1, CosmeticBrowses
<1> QED BY <1>1, <1>2, <1>3

LEMMA BrowseKeeps ==
  ASSUME Sound(picker), Browse
  PROVE  Browsed(picker, picker') /\ (picker.showing \/ InputsEdited(picker, picker'))
<1>1. CASE Enter \/ Leave \/ LeaveUnnoticed
  BY <1>1, LeaveEdits DEF InputsEdited
<1>2. CASE ~(Enter \/ Leave \/ LeaveUnnoticed)
  <2>1. picker.showing
    BY <1>2 DEF Browse, ClickDate, HoverDate, HoverRange, Focus, Type, Pressable,
                HoverCustomRange, MouseLeave, ClickCustomRange, ClickPrev,
                ClickNext, Leaf
  <2>2. CASE \E d \in Picks : ClickDate(d)
    BY <2>1, <2>2, ClickDateBrowses
  <2>3. CASE \/ \E d \in Picks : HoverDate(d)
             \/ \E r \in DOMAIN Ranges : HoverRange(r)
             \/ \E side \in Sides, d \in Picks \cup {Garbage} : Type(side, d)
             \/ MouseLeave \/ ClickCustomRange
    BY <2>1, <2>3, HoverAndPressBrowse
  <2>4. CASE ClickPrev \/ ClickNext
    BY <2>1, <2>4, LeafBrowses
  <2>5. CASE HoverCustomRange \/ \E side \in Sides : Focus(side)
    BY <2>1, <2>5, FocusBrowses
  <2> QED BY <1>2, <2>1, <2>2, <2>3, <2>4, <2>5 DEF Browse
<1> QED BY <1>1, <1>2

\* hide(), after the dates were perhaps replaced by a whole range.
LEMMA HideLemma ==
  ASSUME NEW p \in Widget, p.showing, Linked(p), Ordered(p), Remembers(p)
  PROVE  /\ Sound(Hide(p)) /\ ~Hide(p).showing
         /\ Hide(p).oldStart = p.oldStart /\ Hide(p).oldEnd = p.oldEnd
<1> DEFINE s == IF p.end = NoDate THEN p.oldStart ELSE p.start
           e == IF p.end = NoDate THEN p.oldEnd ELSE p.end
           q == [p EXCEPT !.start = s, !.end = e, !.showing = FALSE]
<1>1. Hide(p) = q
  BY DEF Hide, Widget
<1>2. s \in Day /\ e \in Day /\ s <= e
  BY DEF Remembers, Ordered, Widget, Ends
<1>3. e # NoDate
  BY <1>2, DaysAreIntegers
<1> HIDE DEF s, e
<1>4. /\ q \in Widget /\ q.start = s /\ q.end = e /\ q.showing = FALSE
      /\ q.oldStart = p.oldStart /\ q.oldEnd = p.oldEnd
      /\ q.left = p.left /\ q.right = p.right
  BY <1>2 DEF Widget, Ends
<1> HIDE DEF q
<1> QED BY <1>1, <1>2, <1>3, <1>4 DEF Sound, Linked, Ordered, Remembers

LEMMA ShowLemma ==
  ASSUME NEW p, Sound(p), ~p.showing
  PROVE  /\ Sound(Show(p)) /\ Show(p).showing
         /\ Show(p).oldStart = p.start /\ Show(p).oldEnd = p.end
<1> DEFINE q == [p EXCEPT !.oldStart = p.start, !.oldEnd = p.end, !.showing = TRUE]
<1>1. /\ q \in Widget /\ Linked(q) /\ q.showing = TRUE
      /\ q.start = p.start /\ q.end = p.end
      /\ q.oldStart = p.start /\ q.oldEnd = p.end
  BY DEF Sound, Widget, Linked, Ends
<1>2. Show(p) = UpdateView(q)
  BY DEF Show
<1> HIDE DEF q
<1>3. Rendered(q, UpdateView(q))
  BY <1>1, UpdateViewRenders
<1>4. p.start \in Day /\ p.end \in Day /\ p.start <= p.end
  BY DEF Sound, Widget, Ordered, Ends
<1> QED BY <1>1, <1>2, <1>3, <1>4 DEF Sound, Rendered, Dated, Frame, Ordered, Remembers

\* The three ways a step closes the picker, by the range it holds then.
LEMMA ClosingLemma ==
  ASSUME Sound(picker), picker.showing,
         \/ Toggle \/ OutsideClick \/ ClickCancel \/ ClickApply
         \/ \E r \in DOMAIN Ranges : ClickRange(r)
  PROVE  /\ Sound(picker') /\ ~picker'.showing
         /\ picker'.oldStart = picker.oldStart /\ picker'.oldEnd = picker.oldEnd
<1>0. /\ picker \in Widget /\ Linked(picker) /\ Ordered(picker) /\ Remembers(picker)
      /\ picker.oldStart \in Day /\ picker.oldEnd \in Day
      /\ picker.oldStart <= picker.oldEnd
  BY DEF Sound, Remembers
<1>1. CASE Toggle \/ ClickApply
  <2>1. picker' = Hide(picker)
    BY <1>1 DEF Toggle, Toggled, ClickApply
  <2> QED BY <1>0, <2>1, HideLemma
<1>2. CASE OutsideClick
  <2>1. PICK h : h = Hide(picker)
    OBVIOUS
  <2>2. Sound(h) /\ ~h.showing /\ h.oldStart = picker.oldStart /\ h.oldEnd = picker.oldEnd
    BY <1>0, <2>1, HideLemma
  <2>3. PICK b \in BOOLEAN : picker' = [h EXCEPT !.leaving = b]
    BY <1>2, <2>1 DEF OutsideClick
  <2>4. Cosmetic(h, picker')
    BY <2>2, <2>3 DEF Sound, Cosmetic, Frame, Widget
  <2> QED BY <2>2, <2>4 DEF Sound, Cosmetic, Frame, Linked, Ordered, Remembers
<1>3. CASE ClickCancel
  <2>1. PICK c : c = [picker EXCEPT !.start = picker.oldStart, !.end = picker.oldEnd]
    OBVIOUS
  <2>2. /\ c \in Widget /\ Frame(picker, c) /\ c.left = picker.left
        /\ c.right = picker.right /\ c.start = picker.oldStart /\ c.end = picker.oldEnd
    BY <1>0, <2>1 DEF Widget, Frame, Ends
  <2>3. c.showing /\ Linked(c) /\ Ordered(c) /\ Remembers(c)
    BY <1>0, <2>2 DEF Frame, Linked, Ordered, Remembers
  <2>4. picker' = Hide(c)
    BY <1>3, <2>1 DEF ClickCancel
  <2> QED BY <2>2, <2>3, <2>4, HideLemma DEF Frame
<1>4. CASE \E r \in DOMAIN Ranges : ClickRange(r)
  <2>1. PICK r \in DOMAIN Ranges : ClickRange(r)
    BY <1>4
  <2>2. PICK s \in Day, e \in Day : s = Ranges[r][1] /\ e = Ranges[r][2] /\ s <= e
    BY PickerAssumption DEF Day
  <2>3. PICK c : c = [picker EXCEPT !.start = s, !.end = e, !.calendars = FALSE]
    OBVIOUS
  <2>4. /\ c \in Widget /\ Frame(picker, c) /\ c.left = picker.left
        /\ c.right = picker.right /\ c.start = s /\ c.end = e
    BY <1>0, <2>3 DEF Widget, Frame, Ends
  <2>5. c.showing /\ Linked(c) /\ Ordered(c) /\ Remembers(c)
    BY <1>0, <2>2, <2>4 DEF Frame, Linked, Ordered, Remembers
  <2>6. picker' = Hide(c)
    BY <2>1, <2>2, <2>3 DEF ClickRange
  <2> QED BY <2>4, <2>5, <2>6, HideLemma DEF Frame
<1> QED BY <1>1, <1>2, <1>3, <1>4

-----------------------------------------------------------------------------
(* The inductive invariant. *)

LEMMA InitSound == ASSUME PickerInit PROVE Sound(picker)
<1>1. /\ Ranges[Opening][1] \in Day /\ Ranges[Opening][2] \in Day
      /\ Ranges[Opening][1] <= Ranges[Opening][2]
  BY PickerAssumption DEF Day
<1>2. Ranges[Opening][2] # NoDate
  BY <1>1, DaysAreIntegers
<1> QED BY <1>1, <1>2 DEF PickerInit, PickerOpens, Sound, Widget, Linked, Ordered,
                     Remembers, Ends, Texts, Sides

\* A step is a browsing one, an opening or a closing.
LEMMA StepSound ==
  ASSUME Sound(picker), [PickerNext]_pickerVars
  PROVE  Sound(picker')
<1>1. CASE UNCHANGED pickerVars
  BY <1>1 DEF pickerVars
<1>2. CASE Browse
  BY <1>2, BrowseKeeps DEF InputsEdited, Browsed, Sound, Frame, Remembers
<1>3. CASE Toggle /\ ~picker.showing
  BY <1>3, ShowLemma DEF Toggle, Toggled
<1>4. CASE \/ Toggle \/ OutsideClick \/ ClickCancel \/ ClickApply
           \/ \E r \in DOMAIN Ranges : ClickRange(r)
  <2>1. CASE picker.showing
    BY <1>4, <2>1, ClosingLemma
  <2>2. CASE ~picker.showing
    BY <1>3, <1>4, <2>2 DEF OutsideClick, ClickCancel, ClickApply, ClickRange, Pressable
  <2> QED BY <2>1, <2>2
<1> QED BY <1>1, <1>2, <1>4 DEF PickerNext

LEMMA AlwaysSound == PickerSpec => []Sound(picker)
<1>1. PickerInit => Sound(picker)
  BY InitSound
<1>2. Sound(picker) /\ [PickerNext]_pickerVars => Sound(picker)'
  <2>1. ASSUME Sound(picker), [PickerNext]_pickerVars PROVE Sound(picker')
    BY <2>1, StepSound
  <2> QED BY <2>1 DEF Sound, Widget, Linked, Ordered, Remembers
<1> QED BY <1>1, <1>2, PTL DEF PickerSpec

\* The widget always has its type.
THEOREM PickerTypeHolds == PickerSpec => []PickerType
<1>1. Sound(picker) => PickerType
  BY DEF Sound, PickerType, Widget, Ends, Texts
<1> QED BY <1>1, AlwaysSound, PTL

\* Whatever is clicked or typed, a chosen range is in order and a hidden
\* picker holds a whole one.
THEOREM RangeWholeHolds == PickerSpec => []RangeWhole
<1>1. Sound(picker) => RangeWhole
  BY DEF Sound, RangeWhole, Ordered
<1> QED BY <1>1, AlwaysSound, PTL

-----------------------------------------------------------------------------
(* The grids. *)

\* StartDay by the length of the month before, the weekday of the first and
\* the first day of the week.
Lead(days, w, k) ==
  IF w = k THEN days - 6
  ELSE IF days - w + k + 1 > days THEN days - w + k + 1 - 7
  ELSE days - w + k + 1

LEMMA StartDayIsLead ==
  ASSUME NEW m, NEW days \in Int, NEW w \in Int, NEW k \in Int,
         days = Length(m - 1), w = Weekday(FirstOfMonth[m]), k = FirstWeekday
  PROVE  StartDay(m) = Lead(days, w, k)
BY DEF StartDay, Lead

\* GridWhole by the first days of three months and the first cell's.
Whole(f1, f2, c, k, z) ==
  /\ (c + z) % 7 = k /\ f1 - c \in 1..7
  /\ c + 41 >= f2 /\ c + 8 \in f1..(f2 - 1)

\* What the arithmetic of renderCalendar comes to, for any month lengths and
\* any first day of the week.
LEMMA GridArithmetic ==
  ASSUME NEW f0 \in Int, NEW f1 \in Int, NEW f2 \in Int,
         NEW w \in 0..6, NEW k \in 0..6, NEW z \in Int,
         f1 - f0 \in 28..31, f2 - f1 \in 28..31, w = (f1 + z) % 7
  PROVE  Whole(f1, f2, f0 + Lead(f1 - f0, w, k) - 1, k, z)
<1>1. PICK s : s = Lead(f1 - f0, w, k)
  OBVIOUS
<1>2. s \in Int /\ f1 - (f0 + s - 1) \in 1..7
  BY <1>1 DEF Lead
<1>3. (f0 + s - 1 + z) % 7 = k
  BY <1>1, <1>2 DEF Lead
<1>4. f0 + s - 1 + 41 >= f2 /\ f0 + s - 1 + 8 \in f1..(f2 - 1)
  BY <1>2
<1> QED BY <1>1, <1>2, <1>3, <1>4 DEF Whole

\* For every month whose length and its predecessor's are those of months,
\* and every locale: the six weeks drawn hold the whole month.
THEOREM GridsAreWhole ==
  ASSUME NEW m \in Int,
         FirstOfMonth[m - 1] \in Int, FirstOfMonth[m] \in Int,
         FirstOfMonth[m + 1] \in Int,
         Length(m - 1) \in 28..31, Length(m) \in 28..31
  PROVE  GridWhole(m)
<1> DEFINE f0 == FirstOfMonth[m - 1]
           f1 == FirstOfMonth[m]
           f2 == FirstOfMonth[m + 1]
<1>1. WeekdayOfZero \in 0..6 /\ FirstWeekday \in 0..6
  BY PickerAssumption
<1>2. Length(m - 1) = f1 - f0 /\ Length(m) = f2 - f1
  <2>1. m - 1 + 1 = m
    OBVIOUS
  <2> QED BY <2>1 DEF Length
<1>3. Weekday(f1) = (f1 + WeekdayOfZero) % 7 /\ Weekday(f1) \in 0..6
  BY <1>1 DEF Weekday
<1> DEFINE w == Weekday(f1)
<1>4. PICK c : c = f0 + Lead(f1 - f0, w, FirstWeekday) - 1
  OBVIOUS
<1>5. \A i : Cell(m, i) = c + i
  <2>1. f1 - f0 \in Int
    BY <1>2
  <2>2. w \in Int /\ FirstWeekday \in Int
    <3> HIDE DEF w
    <3>1. w \in 0..6
      BY <1>3 DEF w
    <3> QED BY <1>1, <3>1
  <2>3. StartDay(m) = Lead(f1 - f0, w, FirstWeekday)
    BY <1>2, <2>1, <2>2, StartDayIsLead
  <2> QED BY <1>4, <2>3 DEF Cell
<1>6. /\ f0 \in Int /\ f1 \in Int /\ f2 \in Int /\ WeekdayOfZero \in Int
      /\ f1 - f0 \in 28..31 /\ f2 - f1 \in 28..31
  BY <1>1, <1>2
<1> HIDE DEF f0, f1, f2, w
<1>7. w \in 0..6 /\ w = (f1 + WeekdayOfZero) % 7
  BY <1>3 DEF w
<1>8. Whole(f1, f2, c, FirstWeekday, WeekdayOfZero)
  BY <1>1, <1>4, <1>6, <1>7, GridArithmetic, Zenon
<1>9. c \in Int
  <2>1. Lead(f1 - f0, w, FirstWeekday) \in Int
    BY <1>1, <1>6, <1>7 DEF Lead
  <2> QED BY <1>4, <1>6, <2>1
<1>10. Cell(m, 0) = c /\ Cell(m, 8) = c + 8 /\ Cell(m, 41) = c + 41
  BY <1>5, <1>9
<1> QED BY <1>8, <1>10 DEF GridWhole, Whole, Weekday, f1, f2

\* The calendars in view are linked and whole, wherever the user leafs.
THEOREM CalendarsWholeHold == PickerSpec => []CalendarsWhole
<1>1. ASSUME NEW m \in Months PROVE GridWhole(m) /\ GridWhole(m + 1)
  <2>1. m \in Int
    BY PickerAssumption
  <2>2. {m - 1, m, m + 1, m + 2} \subseteq Neighbours
    BY DEF Neighbours
  <2>3. /\ FirstOfMonth[m - 1] \in Int /\ FirstOfMonth[m] \in Int
        /\ FirstOfMonth[m + 1] \in Int /\ FirstOfMonth[m + 2] \in Int
    BY <2>2, PickerAssumption
  <2>4. /\ Length(m - 1) \in 28..31 /\ Length(m) \in 28..31
        /\ Length(m + 1) \in 28..31
    BY PickerAssumption
  <2>5. GridWhole(m)
    BY <2>1, <2>3, <2>4, GridsAreWhole
  <2>6. m + 1 \in Int /\ (m + 1) - 1 = m /\ (m + 1) + 1 = m + 2
    BY <2>1
  <2>7. GridWhole(m + 1)
    BY <2>3, <2>4, <2>6, GridsAreWhole
  <2> QED BY <2>5, <2>7
<1>2. Sound(picker) => CalendarsWhole
  <2> SUFFICES ASSUME Sound(picker), picker.left # NoMonth
               PROVE  /\ picker.right = picker.left + 1
                      /\ GridWhole(picker.left) /\ GridWhole(picker.right)
    BY DEF CalendarsWhole
  <2>1. picker.left \in Months /\ picker.right = picker.left + 1
    BY DEF Sound, Widget, Linked
  <2> QED BY <1>1, <2>1
<1> QED BY <1>2, AlwaysSound, PTL

-----------------------------------------------------------------------------
(* The refinement. *)

LEMMA InitChooses == ASSUME PickerInit PROVE C!ChooserInit
<1>1. Ranges[Opening] = <<Ranges[Opening][1], Ranges[Opening][2]>>
  BY PickerAssumption
<1>2. /\ picker.showing = FALSE
      /\ picker.start = Ranges[Opening][1] /\ picker.end = Ranges[Opening][2]
  BY DEF PickerInit, PickerOpens
<1> QED BY <1>1, <1>2 DEF PickerInit, C!ChooserInit, Held

LEMMA StepChooses ==
  ASSUME Sound(picker), [PickerNext]_pickerVars
  PROVE  [C!ChooserNext]_(C!chooser)
<1>0. Sound(picker')
  BY StepSound
<1>r. ASSUME ~picker'.showing
      PROVE  <<picker'.start, picker'.end>> \in C!Pairs
  BY <1>0, <1>r DEF Sound, Ordered, Widget, Ends, C!Pairs
<1>1. CASE UNCHANGED pickerVars
  BY <1>1 DEF pickerVars, C!chooser, Held
<1>2. CASE Browse /\ Callback /\ UNCHANGED queried
  <2>1. Frame(picker, picker')
    BY <1>2, BrowseKeeps DEF Browsed
  <2>2. caption' = caption
    BY <1>2, <2>1 DEF Callback, CallsBack, Frame
  <2>3. CASE picker.showing
    BY <1>2, <2>1, <2>2, <2>3 DEF Frame, Held, C!chooser
  <2>4. CASE ~picker.showing
    <3>1. C!StrayEdit(<<picker'.start, picker'.end>>)
      BY <1>2, <2>1, <2>2, <2>4 DEF Frame, Held, C!StrayEdit
    <3> QED BY <1>r, <2>1, <2>4, <3>1 DEF Frame, C!ChooserNext
  <2> QED BY <2>3, <2>4
<1>3. CASE Toggle /\ ~picker.showing /\ Callback /\ UNCHANGED queried
  <2>1. /\ picker'.showing /\ picker'.oldStart = picker.start
        /\ picker'.oldEnd = picker.end
    BY <1>3, ShowLemma DEF Toggle, Toggled
  <2>2. picker.showing = FALSE /\ picker'.showing = TRUE
    BY <1>0, <1>3, <2>1 DEF Sound, Widget
  <2>3. caption' = caption
    BY <1>3 DEF Callback, CallsBack
  <2>4. C!Open
    BY <1>3, <2>1, <2>2, <2>3 DEF C!Open, Held
  <2> QED BY <2>4 DEF C!ChooserNext
<1>4. ASSUME picker.showing, Callback,
             \/ Toggle \/ OutsideClick \/ ClickCancel \/ ClickApply
             \/ \E r \in DOMAIN Ranges : ClickRange(r)
      PROVE  /\ C!Close(<<picker'.start, picker'.end>>)
             /\ <<picker'.start, picker'.end>> \in C!Pairs
  <2>1. ~picker'.showing
    BY <1>4, ClosingLemma
  <2>2. picker'.showing = FALSE
    BY <1>0, <2>1 DEF Sound, Widget
  <2>3. PICK told \in CallsBack(picker, picker') :
          caption' = IF told THEN <<picker'.start, picker'.end>> ELSE caption
    BY <1>4 DEF Callback
  <2>4. /\ CallsBack(picker, picker') \subseteq BOOLEAN
        /\ <<picker'.start, picker'.end>> # <<picker.oldStart, picker.oldEnd>>
             => CallsBack(picker, picker') = {TRUE}
    <3>1. /\ picker'.oldStart = picker.oldStart /\ picker'.oldEnd = picker.oldEnd
      BY <1>4, ClosingLemma
    <3> QED BY <1>4, <2>1 DEF CallsBack
  <2>5. \/ caption' = <<picker'.start, picker'.end>>
        \/ /\ caption' = caption
           /\ <<picker'.start, picker'.end>> = <<picker.oldStart, picker.oldEnd>>
    BY <2>3, <2>4
  <2>6. C!Close(<<picker'.start, picker'.end>>)
    BY <1>4, <2>2, <2>5 DEF C!Close, Held
  <2> QED BY <1>r, <2>1, <2>6
<1>5. CASE /\ Toggle \/ OutsideClick \/ ClickCancel
           /\ picker.showing /\ Callback /\ UNCHANGED queried
  <2>1. C!Dismiss(<<picker'.start, picker'.end>>)
    BY <1>4, <1>5 DEF C!Dismiss
  <2> QED BY <1>4, <1>5, <2>1 DEF C!ChooserNext
<1>6. CASE /\ ClickApply \/ \E r \in DOMAIN Ranges : ClickRange(r)
           /\ Callback /\ OnApply
  <2>1. picker.showing
    BY <1>6 DEF ClickApply, ClickRange, Pressable
  <2>2. C!Apply(<<picker'.start, picker'.end>>)
    BY <1>4, <1>6, <2>1 DEF C!Apply, OnApply
  <2> QED BY <1>4, <1>6, <2>1, <2>2 DEF C!ChooserNext
<1>7. ASSUME OutsideClick \/ ClickCancel PROVE picker.showing
  BY <1>7 DEF OutsideClick, ClickCancel, Pressable
<1> QED BY <1>1, <1>2, <1>3, <1>5, <1>6, <1>7 DEF PickerNext

\* The widget and the page's two handlers implement RangeChooser: every
\* closing yields days in order, the label follows every change that is called
\* back, and only apply moves the days that are asked for.
THEOREM PickerImplementsChooser == PickerSpec => ImplementsChooser
<1>1. PickerInit => C!ChooserInit
  BY InitChooses
<1>2. Sound(picker) /\ [PickerNext]_pickerVars => [C!ChooserNext]_(C!chooser)
  BY StepChooses
<1> QED BY <1>1, <1>2, AlwaysSound, PTL DEF PickerSpec, ImplementsChooser, C!Chooser


-----------------------------------------------------------------------------
\* What is put in the place of a part of a text.
IsPut(out, text, from, to, word) ==
  /\ Len(out) = from + Len(word) + Len(text) - to
  /\ \A i \in 1..from : out[i] = text[i]
  /\ \A i \in 1..Len(word) : out[from + i] = word[i]
  /\ \A i \in 1..Len(text) - to : out[from + Len(word) + i] = text[to + i]

\* Put, element by element.
LEMMA PutIs ==
  ASSUME NEW E, NEW text \in Seq(E), NEW word \in Seq(E),
         NEW from \in 0..Len(text), NEW to \in from..Len(text), NEW out,
         out = Put(text, from, to, word)
  PROVE  out \in Seq(E) /\ IsPut(out, text, from, to, word)
<1> PICK head : head = SubSeq(text, 1, from)
  OBVIOUS
<1> PICK tail : tail = SubSeq(text, to + 1, Len(text))
  OBVIOUS
<1> PICK front : front = head \o word
  OBVIOUS
<1>0. /\ Len(text) \in Nat /\ Len(word) \in Nat /\ from \in Nat /\ to \in Nat
      /\ to \in 0..Len(text) /\ Len(text) \in to..Len(text)
  BY LenProperties
<1>1. head \in Seq(E) /\ IsPart(head, text, 0, from)
  BY HeadIs
<1>2. tail \in Seq(E) /\ IsPart(tail, text, to, Len(text))
  BY <1>0, PartIs
<1>3. front \in Seq(E) /\ IsBoth(front, head, word)
  BY <1>1, BothIs
<1>4. out \in Seq(E) /\ IsBoth(out, front, tail)
  <2>1. out = front \o tail
    BY DEF Put
  <2> QED BY <1>2, <1>3, <2>1, BothIs
<1>5. Len(head) = from /\ Len(tail) = Len(text) - to /\ Len(front) = from + Len(word)
  BY ONLY <1>0, <1>1, <1>2, <1>3 DEF IsPart, IsBoth
<1>6. Len(out) = from + Len(word) + Len(text) - to
  BY ONLY <1>0, <1>4, <1>5 DEF IsBoth
<1>7. ASSUME NEW i \in 1..from PROVE out[i] = text[i]
  <2>1. i \in 1..Len(front) /\ i \in 1..Len(head) /\ i \in 1..from - 0 /\ 0 + i = i
    BY ONLY <1>0, <1>5, i \in 1..from
  <2>2. head[i] = text[0 + i]
    BY ONLY <1>1, <2>1 DEF IsPart
  <2> QED BY ONLY <1>3, <1>4, <2>1, <2>2 DEF IsBoth
<1>8. ASSUME NEW i \in 1..Len(word) PROVE out[from + i] = word[i]
  <2> PICK k : k = Len(head) + i
    OBVIOUS
  <2>1. k \in 1..Len(front) /\ k = from + i
    BY ONLY <1>0, <1>5, i \in 1..Len(word), k = Len(head) + i
  <2>2. front[k] = word[i]
    BY ONLY <1>3, i \in 1..Len(word), k = Len(head) + i DEF IsBoth
  <2> QED BY ONLY <1>4, <2>1, <2>2 DEF IsBoth
<1>9. ASSUME NEW i \in 1..Len(text) - to PROVE out[from + Len(word) + i] = text[to + i]
  <2>1. i \in 1..Len(tail)
    BY ONLY <1>5, i \in 1..Len(text) - to
  <2>2. out[Len(front) + i] = tail[i]
    BY ONLY <1>4, <2>1 DEF IsBoth
  <2>3. tail[i] = text[to + i]
    BY ONLY <1>2, i \in 1..Len(text) - to DEF IsPart
  <2> QED BY ONLY <1>5, <2>2, <2>3
<1> QED BY ONLY <1>4, <1>6, <1>7, <1>8, <1>9 DEF IsPut

\* Where the line of a position begins, and where it ends.
LEMMA BeginIs ==
  ASSUME NEW E, NEW text \in Seq(E), NEW p \in 0..Len(text), NEW b, b = BeginOf(text, p)
  PROVE  /\ b \in 0..p
         /\ b = 0 \/ text[b] = LineEnd
         /\ \A i \in b + 1..p : text[i] # LineEnd
<1> PICK S : S = {q \in 0..p : q = 0 \/ text[q] = LineEnd}
  OBVIOUS
<1>0. p \in Nat
  BY LenProperties
<1>1. IsFiniteSet(S) /\ S \subseteq Int /\ S # {}
  <2>1. 0 \in S
    BY <1>0
  <2>2. IsFiniteSet(0..p)
    BY <1>0, FS_Interval
  <2>3. IsFiniteSet(S)
    BY <2>2, FS_Subset
  <2>4. S \subseteq Int
    BY ONLY <1>0, S = {q \in 0..p : q = 0 \/ text[q] = LineEnd}
  <2> QED BY ONLY <2>1, <2>3, <2>4
<1>2. PICK m : m \in S /\ \A q \in S : q <= m
  BY ONLY <1>1, MaxIn
<1>3. \A i \in m + 1..p : text[i] # LineEnd
  <2> SUFFICES ASSUME NEW i \in m + 1..p, text[i] = LineEnd PROVE FALSE
    OBVIOUS
  <2>1. m \in 0..p
    BY <1>2
  <2>2. i \in S
    BY <1>0, <2>1
  <2> QED BY <1>0, <1>2, <2>1, <2>2
<1>4. m \in 0..p /\ (m = 0 \/ text[m] = LineEnd)
  BY <1>2
<1> QED BY ONLY <1>3, <1>4, b = BeginOf(text, p) DEF BeginOf

\* The end of a line is one, or that of the text.
LEMMA EndIs ==
  ASSUME NEW E, NEW text \in Seq(E), NEW p \in 0..Len(text), NEW e, e = EndOf(text, p)
  PROVE  e \in p..Len(text)
<1> PICK S : S = {q \in p..Len(text) : q = Len(text) \/ text[q + 1] = LineEnd}
  OBVIOUS
<1>0. p \in Nat /\ Len(text) \in Nat
  BY LenProperties
<1>1. IsFiniteSet(S) /\ S \subseteq Int /\ S # {}
  <2>1. Len(text) \in S
    BY <1>0
  <2>2. IsFiniteSet(p..Len(text))
    BY <1>0, FS_Interval
  <2>3. IsFiniteSet(S)
    BY <2>2, FS_Subset
  <2>4. S \subseteq Int
    BY ONLY <1>0, S = {q \in p..Len(text) : q = Len(text) \/ text[q + 1] = LineEnd}
  <2> QED BY ONLY <2>1, <2>3, <2>4
<1>2. PICK m : m \in S /\ \A q \in S : m <= q
  BY ONLY <1>1, MinIn
<1>3. \A i \in p + 1..m : text[i] # LineEnd
  <2> SUFFICES ASSUME NEW i \in p + 1..m, text[i] = LineEnd PROVE FALSE
    OBVIOUS
  <2>1. m \in p..Len(text)
    BY <1>2
  <2>2. i - 1 \in p..Len(text) /\ text[(i - 1) + 1] = LineEnd
    BY <1>0, <2>1
  <2>3. m <= i - 1
    BY <1>2, <2>2
  <2> QED BY <1>0, <2>1, <2>3
<1>4. m \in p..Len(text) /\ (m = Len(text) \/ text[m + 1] = LineEnd)
  BY <1>2
<1> QED BY ONLY <1>3, <1>4, e = EndOf(text, p) DEF EndOf

\* How much two sequences begin with the same.
LEMMA CommonIs ==
  ASSUME NEW E, NEW s \in Seq(E), NEW t \in Seq(E), NEW n, n = Common(s, t)
  PROVE  /\ n \in 0..Len(s) /\ n <= Len(t) /\ \A i \in 1..n : s[i] = t[i]
         /\ n = Len(s) \/ n = Len(t) \/ s[n + 1] # t[n + 1]
<1>0. Len(s) \in Nat /\ Len(t) \in Nat
  BY LenProperties
<1> PICK S : S = {q \in 0..Len(s) : q = Len(s) \/ q = Len(t) \/ s[q + 1] # t[q + 1]}
  OBVIOUS
<1>1. IsFiniteSet(S) /\ S \subseteq Int /\ S # {}
  <2>1. Len(s) \in S
    BY <1>0
  <2>2. IsFiniteSet(0..Len(s))
    BY <1>0, FS_Interval
  <2>3. IsFiniteSet(S)
    BY <2>2, FS_Subset
  <2>4. S \subseteq Int
    BY ONLY <1>0, S = {q \in 0..Len(s) : q = Len(s) \/ q = Len(t) \/ s[q + 1] # t[q + 1]}
  <2> QED BY ONLY <2>1, <2>3, <2>4
<1>2. PICK m : m \in S /\ \A q \in S : m <= q
  BY ONLY <1>1, MinIn
<1>3. m \in 0..Len(s) /\ (m = Len(s) \/ m = Len(t) \/ s[m + 1] # t[m + 1])
  BY <1>2
<1>4. \A i \in 0..m - 1 : i # Len(t) /\ s[i + 1] = t[i + 1]
  <2> SUFFICES ASSUME NEW i \in 0..m - 1, i = Len(t) \/ s[i + 1] # t[i + 1] PROVE FALSE
    OBVIOUS
  <2>1. i \in S
    BY <1>0, <1>3
  <2> QED BY <1>0, <1>2, <1>3, <2>1
<1>5. m <= Len(t)
  BY <1>0, <1>3, <1>4
<1>6. \A i \in 1..m : s[i] = t[i]
  <2> SUFFICES ASSUME NEW i \in 1..m PROVE s[i] = t[i]
    OBVIOUS
  <2>1. i - 1 \in 0..m - 1 /\ (i - 1) + 1 = i
    BY <1>0, <1>3
  <2> QED BY <1>4, <2>1
<1> QED BY ONLY <1>3, <1>5, <1>6, n = Common(s, t) DEF Common

\* What comes first in both.
LEMMA CommonAll ==
  ASSUME NEW E, NEW s \in Seq(E), NEW t \in Seq(E), Len(s) <= Len(t),
         \A i \in 1..Len(s) : s[i] = t[i]
  PROVE  Common(s, t) = Len(s)
<1>0. Len(s) \in Nat /\ Len(t) \in Nat
  BY LenProperties
<1> PICK n : n = Common(s, t)
  OBVIOUS
<1>1. /\ n \in 0..Len(s) /\ n <= Len(t)
      /\ n = Len(s) \/ n = Len(t) \/ s[n + 1] # t[n + 1]
  BY CommonIs
<1>2. n < Len(s) => n + 1 \in 1..Len(s)
  BY <1>0, <1>1
<1> QED BY <1>0, <1>1, <1>2
-----------------------------------------------------------------------------
\* What a document can be made of, what the area may hold, and the states the
\* field may be in.
Written == Key \cup {LineEnd}
AreaKey == Written \cup {ZeroWidth, Space}
FieldStates ==
  [text : Seq(Written), from : Nat, to : Nat, area : Seq(AreaKey),
   marked : {"none", "rest", "all"}, prev : Seq(AreaKey), focused : BOOLEAN,
   composing : BOOLEAN, composed : Nat, menu : {"none", "pending", "shown"},
   forMenu : BOOLEAN, copied : [lineWise : BOOLEAN, text : Seq(Written)],
   timer : {"off", "slow", "fast", "missed"}, readOnly : BOOLEAN,
   meant : Seq(Written), astray : BOOLEAN]

\* What the area holds while something is selected: nothing that was seen.
WithSelection(f) ==
  /\ f.prev = <<>> /\ ~f.composing
  /\ f.focused => HasSelection(f)
  /\ f.marked = "rest" => f.forMenu /\ Len(f.area) > 1 /\ f.area[1] = ZeroWidth

\* what was typed of late
AsSeen(f) ==
  /\ f.marked = "none" /\ f.area = f.prev
  /\ \A i \in 1..Len(f.area) : f.area[i] # LineEnd
  /\ f.menu = "shown" => ~f.forMenu
  /\ f.composed <= Len(f.area) /\ f.composed <= f.from
  /\ \A i \in 1..f.composed :
       f.area[Len(f.area) - f.composed + i] = f.text[f.from - f.composed + i]
\* the menu is open, with nothing selected
MenuOpen(f) ==
  /\ f.marked \in {"rest", "all"} /\ f.area = <<ZeroWidth>> /\ f.prev = f.area
  /\ ~f.composing
\* a line was copied as a whole, or all was selected
LineCopied(f) == f.marked = "all" /\ f.prev = <<>> /\ ~f.composing
\* a menu was open with something selected, which was pasted over
PastedOver(f) ==
  /\ f.marked = "rest" /\ f.prev = <<>> /\ Len(f.area) > 1 /\ f.area[1] = ZeroWidth
  /\ ~f.forMenu /\ ~f.composing

\* What the area holds is known, unless a menu is about to be shown, in an editor
\* that can be typed in.
AreaKnown(f) ==
  f.menu # "pending" /\ (f.focused \/ f.forMenu) =>
    IF Selects(f) THEN WithSelection(f)
    ELSE AsSeen(f) \/ MenuOpen(f) \/ LineCopied(f) \/ PastedOver(f)

\* What holds of the field whether or not the area was set right after.
Loose(f) ==
  /\ f \in FieldStates
  /\ f.from <= f.to /\ f.to <= Len(f.text)
  /\ f.menu = "pending" => f.area # <<>>
  /\ f.composing => f.focused /\ f.menu # "pending"
  /\ ~f.composing => f.composed = 0
  /\ f.marked = "rest" => f.area # <<>> /\ ~f.composing

\* What holds while nothing has gone astray.
Shape(f) ==
  /\ Loose(f) /\ f.text = f.meant
  /\ f.readOnly \/ ((f.composing => ~f.forMenu) /\ AreaKnown(f))

\* The inductive invariant: all of it, as long as nothing goes astray, and that
\* the timer runs.
Kept(f) ==
  /\ f.astray \/ Shape(f)
  /\ f.focused => f.timer # "off"
FieldInv == Kept(field)

\* What poll takes to have been in the area when it was last read.
Seen(f) ==
  IF f.forMenu /\ f.prev = <<>> /\ f.area # <<>> /\ f.area[1] = ZeroWidth
  THEN <<ZeroWidth>> ELSE f.prev

\* What is put in a part at a time is put in as a whole: the first of it, as
\* long as u, is there already.
Started(E, text, from, to, word, u, rest, at) ==
  /\ text \in Seq(E) /\ from \in 0..Len(text) /\ to \in from..Len(text)
  /\ word \in Seq(E) /\ u \in 0..Len(word) /\ from + u <= to /\ at = from + u
  /\ \A i \in 1..u : word[i] = text[from + i]
  /\ rest \in Seq(E) /\ rest = SubSeq(word, u + 1, Len(word))

\* To put the rest of it in is to put in all of it.
LEMMA PutRest ==
  ASSUME NEW E, NEW text, NEW from, NEW to, NEW word, NEW u, NEW rest, NEW at,
         Started(E, text, from, to, word, u, rest, at)
  PROVE  Put(text, at, to, rest) = Put(text, from, to, word)
<1>00. /\ text \in Seq(E) /\ from \in 0..Len(text) /\ to \in from..Len(text)
       /\ word \in Seq(E) /\ u \in 0..Len(word) /\ from + u <= to /\ at = from + u
       /\ \A i \in 1..u : word[i] = text[from + i]
       /\ rest \in Seq(E) /\ rest = SubSeq(word, u + 1, Len(word))
  BY DEF Started
<1>0. Len(text) \in Nat /\ Len(word) \in Nat /\ from \in Nat /\ to \in Nat /\ u \in Nat
  BY <1>00, LenProperties
<1>1. Len(rest) = Len(word) - u /\ \A i \in 1..Len(word) - u : rest[i] = word[u + i]
  <2>1. Len(word) \in u..Len(word)
    BY <1>00, <1>0
  <2>2. IsPart(rest, word, u, Len(word))
    BY <1>00, <2>1, PartIs
  <2> QED BY ONLY <2>2 DEF IsPart
<1> PICK a : a = Put(text, from + u, to, rest)
  OBVIOUS
<1> PICK b : b = Put(text, from, to, word)
  OBVIOUS
<1>2. from + u \in 0..Len(text) /\ to \in from + u..Len(text)
  BY ONLY <1>0, <1>00
<1>3. /\ a \in Seq(E) /\ Len(a) = from + u + Len(rest) + Len(text) - to
      /\ \A i \in 1..from + u : a[i] = text[i]
      /\ \A i \in 1..Len(rest) : a[from + u + i] = rest[i]
      /\ \A i \in 1..Len(text) - to : a[from + u + Len(rest) + i] = text[to + i]
  <2>1. a \in Seq(E) /\ IsPut(a, text, from + u, to, rest)
    BY <1>00, <1>2, PutIs
  <2> QED BY ONLY <2>1 DEF IsPut
<1>4. /\ b \in Seq(E) /\ Len(b) = from + Len(word) + Len(text) - to
      /\ \A i \in 1..from : b[i] = text[i]
      /\ \A i \in 1..Len(word) : b[from + i] = word[i]
      /\ \A i \in 1..Len(text) - to : b[from + Len(word) + i] = text[to + i]
  <2>1. b \in Seq(E) /\ IsPut(b, text, from, to, word)
    BY <1>00, PutIs
  <2> QED BY ONLY <2>1 DEF IsPut
<1>5. Len(a) = Len(b) /\ Len(a) \in Nat
  BY ONLY <1>0, <1>1, <1>3, <1>4, <1>00
<1>6. ASSUME NEW k \in 1..Len(a) PROVE a[k] = b[k]
  <2>1. CASE k <= from
    <3>1. k \in 1..from /\ k \in 1..from + u
      BY ONLY <1>0, <1>5, <2>1, k \in 1..Len(a)
    <3> QED BY ONLY <3>1, <1>3, <1>4
  <2>2. CASE from < k /\ k <= from + u
    <3> PICK i : i = k - from
      OBVIOUS
    <3>1. i \in 1..u /\ i \in 1..Len(word) /\ k = from + i /\ k \in 1..from + u
      BY ONLY <1>0, <1>5, <2>2, k \in 1..Len(a), i = k - from, <1>00
    <3> QED BY ONLY <3>1, <1>3, <1>4, <1>00
  <2>3. CASE from + u < k /\ k <= from + Len(word)
    <3> PICK i : i = k - (from + u)
      OBVIOUS
    <3>1. /\ i \in 1..Len(word) - u /\ i \in 1..Len(rest) /\ k = from + u + i
          /\ u + i \in 1..Len(word) /\ k = from + (u + i)
      BY ONLY <1>0, <1>1, <1>5, <2>3, k \in 1..Len(a), i = k - (from + u), <1>00
    <3>2. a[k] = rest[i]
      BY ONLY <3>1, <1>3
    <3>3. b[k] = word[u + i]
      BY ONLY <3>1, <1>4
    <3> QED BY ONLY <3>1, <3>2, <3>3, <1>1
  <2>4. CASE from + Len(word) < k
    <3> PICK i : i = k - (from + Len(word))
      OBVIOUS
    <3>1. /\ i \in 1..Len(text) - to /\ k = from + u + Len(rest) + i
          /\ k = from + Len(word) + i
      BY ONLY <1>0, <1>1, <1>4, <1>5, <2>4, k \in 1..Len(a), i = k - (from + Len(word)),
              <1>00
    <3> QED BY ONLY <3>1, <1>3, <1>4
  <2> QED BY ONLY <1>0, <1>5, <2>1, <2>2, <2>3, <2>4, k \in 1..Len(a)
<1>7. a = b
  BY ONLY <1>3, <1>4, <1>5, <1>6, SeqEqual
<1> QED BY ONLY <1>7, <1>00, a = Put(text, from + u, to, rest), b = Put(text, from, to, word)

-----------------------------------------------------------------------------
\* The text put in, and the cursor where it ends.
Became(f, text, p) ==
  [f EXCEPT !.text = text, !.from = p, !.to = p, !.forMenu = FALSE]

\* Of what it became, all but the text and the cursor is as it was.
Turned(g, f, text, p) ==
  /\ g \in FieldStates
  /\ g.text = text /\ g.from = p /\ g.to = p /\ ~g.forMenu
  /\ g.area = f.area /\ g.marked = f.marked /\ g.prev = f.prev
  /\ g.focused = f.focused /\ g.composing = f.composing /\ g.composed = f.composed
  /\ g.menu = f.menu /\ g.copied = f.copied /\ g.timer = f.timer
  /\ g.readOnly = f.readOnly /\ g.meant = f.meant /\ g.astray = f.astray

\* The fields of such a state.
LEMMA BecameIs ==
  ASSUME NEW f \in FieldStates, NEW text \in Seq(Written), NEW p \in Nat,
         NEW g, g = Became(f, text, p)
  PROVE  Turned(g, f, text, p)
BY DEF FieldStates, Became, Turned

\* A text put in for the last part of what was typed.
LEMMA ApplyIs ==
  ASSUME NEW f \in FieldStates, f.from <= f.to, f.to <= Len(f.text),
         NEW ins \in Seq(Written), NEW w \in 0..f.from, Selects(f) => w = 0,
         \A i \in f.from - w + 1..f.from : f.text[i] # LineEnd,
         ~WholeLine(f, ins, w), NEW p, p = f.from - w + Len(ins)
  PROVE  ApplyTextInput(f, ins, w) =
           Became(f, Put(f.text, f.from - w, f.to, ins), p)
<1> PICK begin : begin = BeginOf(f.text, f.from)
  OBVIOUS
<1> PICK short : short = EndOf(f.text, f.from) - 1
  OBVIOUS
<1>0. /\ f.text \in Seq(Written) /\ f.from \in 0..Len(f.text) /\ f.from \in Nat /\ f.to \in Nat
      /\ Len(f.text) \in Nat /\ Len(ins) \in Nat /\ w \in Nat
  BY LenProperties DEF FieldStates
<1>1. /\ begin \in 0..f.from
      /\ begin = 0 \/ f.text[begin] = LineEnd
  BY <1>0, BeginIs
<1>2. begin <= f.from - w
  <2> SUFFICES ASSUME ~(begin <= f.from - w) PROVE FALSE
    OBVIOUS
  <2>1. begin \in f.from - w + 1..f.from /\ begin # 0
    BY <1>0, <1>1
  <2> QED BY <1>1, <2>1
<1>3. Selects(f) => f.from - w = f.from
  BY <1>0
<1> PICK from : from = f.from - w
  OBVIOUS
<1>4. from = IF Selects(f) THEN f.from ELSE f.from - w
  BY <1>3
<1>5. from = (IF from >= begin \/ Selects(f) THEN from
              ELSE IF short < begin THEN begin ELSE short)
  BY <1>0, <1>1, <1>2
<1>6. p = f.to + from + Len(ins) - f.to
  BY <1>0
<1> QED BY <1>4, <1>5, <1>6 DEF ApplyTextInput, Put, Became

\* Wherever it goes, it goes into the text.
LEMMA ApplyTyped ==
  ASSUME NEW f \in FieldStates, f.from <= f.to, f.to <= Len(f.text),
         NEW ins \in Seq(Written), NEW g, g = ApplyTextInput(f, ins, 0)
  PROVE  /\ g \in FieldStates /\ g.from = g.to /\ g.to <= Len(g.text)
         /\ g = Became(f, g.text, g.from)
<1>0. /\ f.text \in Seq(Written) /\ f.from \in 0..Len(f.text) /\ f.from \in Nat /\ f.to \in Nat
      /\ Len(f.text) \in Nat /\ Len(ins) \in Nat /\ f.to \in f.from..Len(f.text)
  BY LenProperties DEF FieldStates
<1>1. PICK at \in 0..Len(f.text), to \in 0..Len(f.text), p \in Nat :
        /\ at <= to /\ p <= at + Len(ins) + Len(f.text) - to
        /\ g = Became(f, Put(f.text, at, to, ins), p)
  <2>1. CASE WholeLine(f, ins, 0)
    <3> PICK begin : begin = BeginOf(f.text, f.from)
      OBVIOUS
    <3> PICK short : short = EndOf(f.text, f.from) - 1
      OBVIOUS
    <3>1. begin \in 0..f.from
      BY <1>0, BeginIs
    <3>2. begin = (IF begin >= begin \/ Selects(f) THEN begin
                   ELSE IF short < begin THEN begin ELSE short)
      BY <3>1
    <3> PICK p : p = f.to + begin + Len(ins) - begin
      OBVIOUS
    <3>3. /\ p \in Nat /\ begin \in 0..Len(f.text) /\ begin <= begin
          /\ p <= begin + Len(ins) + Len(f.text) - begin
      BY SMTT(30), <1>0, <3>1
    <3>4. g = Became(f, Put(f.text, begin, begin, ins), p)
      BY <2>1, <3>2 DEF ApplyTextInput, Put, Became
    <3> QED BY <3>3, <3>4
  <2>2. CASE ~WholeLine(f, ins, 0)
    <3> PICK p : p = f.from - 0 + Len(ins)
      OBVIOUS
    <3>1. \A i \in f.from - 0 + 1..f.from : f.text[i] # LineEnd
      BY <1>0
    <3>2. g = Became(f, Put(f.text, f.from - 0, f.to, ins), p)
      BY <1>0, <2>2, <3>1, ApplyIs
    <3>3. f.from - 0 = f.from /\ p \in Nat /\ p <= f.from + Len(ins) + Len(f.text) - f.to
      BY <1>0
    <3>4. g = Became(f, Put(f.text, f.from, f.to, ins), p)
      BY ONLY <3>2, <3>3
    <3>5. f.from <= f.to /\ f.to \in 0..Len(f.text)
      BY <1>0
    <3> QED BY ONLY <1>0, <3>3, <3>4, <3>5
  <2> QED BY <2>1, <2>2
<1> PICK text : text = Put(f.text, at, to, ins)
  OBVIOUS
<1>2. text \in Seq(Written) /\ Len(text) = at + Len(ins) + Len(f.text) - to
  <2>0. to \in at..Len(f.text)
    BY <1>0, <1>1
  <2>1. text \in Seq(Written) /\ IsPut(text, f.text, at, to, ins)
    BY <1>0, <2>0, PutIs
  <2> QED BY <2>1 DEF IsPut
<1>3. g = Became(f, text, p)
  BY <1>1
<1>4. g \in FieldStates /\ g.text = text /\ g.from = p /\ g.to = p
  <2>1. text \in Seq(Written) /\ p \in Nat /\ f \in FieldStates
    BY <1>2
  <2>2. Turned(g, f, text, p)
    BY ONLY <2>1, <1>3, BecameIs
  <2> QED BY ONLY <2>2 DEF Turned
<1> QED BY <1>1, <1>2, <1>3, <1>4

\* What is new in an area that holds a word for the last w characters seen: of
\* the word, what is not there already, which is its first u characters.
HoldsWord(area, s, w, word, c, u) ==
  /\ Len(area) = Len(s) - w + Len(word)
  /\ \A i \in 1..Len(s) - w : area[i] = s[i]
  /\ \A i \in 1..Len(word) : area[Len(s) - w + i] = word[i]
  /\ u \in 0..Len(word) /\ u \in 0..w /\ Len(s) - c = w - u
  /\ \A i \in 1..u : word[i] = s[Len(s) - w + i]
  /\ SubSeq(area, c + 1, Len(area)) = SubSeq(word, u + 1, Len(word))

\* What poll finds to be new is the rest of the word.
LEMMA NewIs ==
  ASSUME NEW E, NEW s \in Seq(E), NEW word \in Seq(E), NEW w \in 0..Len(s),
         NEW area, area = SubSeq(s, 1, Len(s) - w) \o word,
         NEW c, c = Common(s, area), NEW u, u = c - (Len(s) - w)
  PROVE  area \in Seq(E) /\ HoldsWord(area, s, w, word, c, u)
<1>0. Len(word) \in Nat /\ w \in Nat /\ Len(s) \in Nat
  BY LenProperties
<1> PICK kept : kept = Len(s) - w
  OBVIOUS
<1>1. kept \in 0..Len(s) /\ kept \in Nat
  BY <1>0
<1> PICK head : head = SubSeq(s, 1, kept)
  OBVIOUS
<1>2. head \in Seq(E) /\ IsPart(head, s, 0, kept)
  BY <1>1, HeadIs
<1>3. area \in Seq(E) /\ IsBoth(area, head, word)
  <2>1. area = head \o word
    OBVIOUS
  <2> QED BY <1>2, <2>1, BothIs
<1>4. Len(head) = kept /\ Len(area) = kept + Len(word) /\ Len(area) \in Nat
  BY ONLY <1>0, <1>1, <1>2, <1>3 DEF IsPart, IsBoth
<1>5. ASSUME NEW i \in 1..kept PROVE area[i] = s[i]
  <2>1. i \in 1..kept - 0 /\ 0 + i = i /\ i \in 1..Len(head)
    BY ONLY <1>1, <1>4, i \in 1..kept
  <2>2. head[i] = s[0 + i]
    BY ONLY <1>2, <2>1 DEF IsPart
  <2> QED BY ONLY <1>3, <2>1, <2>2 DEF IsBoth
<1>6. ASSUME NEW i \in 1..Len(word) PROVE area[kept + i] = word[i]
  BY ONLY <1>3, <1>4, i \in 1..Len(word) DEF IsBoth
<1>7. /\ c \in 0..Len(s) /\ c <= Len(area) /\ \A i \in 1..c : s[i] = area[i]
      /\ c = Len(s) \/ c = Len(area) \/ s[c + 1] # area[c + 1]
  BY ONLY s \in Seq(E), <1>3, c = Common(s, area), CommonIs
<1>8. kept <= c
  <2> SUFFICES ASSUME c < kept PROVE FALSE
    BY <1>1, <1>7
  <2>1. c # Len(s) /\ c # Len(area) /\ c + 1 \in 1..kept
    BY ONLY <1>0, <1>1, <1>4, <1>7, c < kept
  <2> QED BY ONLY <1>5, <1>7, <2>1
<1>9. u \in 0..Len(word) /\ u \in 0..w /\ Len(s) - c = w - u /\ u \in Nat /\ c = kept + u
  BY ONLY <1>0, <1>1, <1>4, <1>7, <1>8, u = c - (Len(s) - w), kept = Len(s) - w, w \in 0..Len(s)
<1>10. ASSUME NEW i \in 1..u PROVE word[i] = s[kept + i]
  <2>1. i \in 1..Len(word) /\ kept + i \in 1..c
    BY ONLY <1>0, <1>1, <1>9, i \in 1..u
  <2> QED BY ONLY <1>6, <1>7, <2>1
<1> PICK new : new = SubSeq(area, c + 1, Len(area))
  OBVIOUS
<1> PICK rest : rest = SubSeq(word, u + 1, Len(word))
  OBVIOUS
<1>11. rest = new
  <2>1. /\ u \in 0..Len(word) /\ Len(word) \in u..Len(word)
        /\ c \in 0..Len(area) /\ Len(area) \in c..Len(area)
    BY ONLY <1>0, <1>4, <1>7, <1>9
  <2>2. rest \in Seq(E) /\ IsPart(rest, word, u, Len(word))
    BY <2>1, PartIs
  <2>3. new \in Seq(E) /\ IsPart(new, area, c, Len(area))
    BY <1>3, <2>1, PartIs
  <2>4. Len(rest) = Len(word) - u /\ Len(new) = Len(rest) /\ Len(rest) \in Nat
    BY ONLY <1>0, <1>1, <1>4, <1>9, <2>1, <2>2, <2>3 DEF IsPart
  <2>5. ASSUME NEW i \in 1..Len(rest) PROVE rest[i] = new[i]
    <3>1. /\ i \in 1..Len(word) - u /\ i \in 1..Len(area) - c /\ u + i \in 1..Len(word)
          /\ c + i = kept + (u + i)
      BY ONLY <1>0, <1>1, <1>4, <1>9, <2>4, i \in 1..Len(rest)
    <3>2. rest[i] = word[u + i] /\ new[i] = area[c + i]
      BY ONLY <2>2, <2>3, <3>1 DEF IsPart
    <3>3. area[kept + (u + i)] = word[u + i]
      BY ONLY <1>6, <3>1
    <3> QED BY ONLY <3>1, <3>2, <3>3
  <2> QED BY ONLY <2>2, <2>3, <2>4, <2>5, SeqEqual
<1>12. /\ Len(area) = Len(s) - w + Len(word)
       /\ \A i \in 1..Len(s) - w : area[i] = s[i]
       /\ \A i \in 1..Len(word) : area[Len(s) - w + i] = word[i]
       /\ \A i \in 1..u : word[i] = s[Len(s) - w + i]
  BY ONLY <1>4, <1>5, <1>6, <1>10, kept = Len(s) - w
<1> QED BY ONLY <1>3, <1>9, <1>11, <1>12, new = SubSeq(area, c + 1, Len(area)),
                rest = SubSeq(word, u + 1, Len(word)) DEF HoldsWord

\* A field that is read, with nothing selected in it: what is new in it goes
\* in for the last w characters that were seen.
Readable(f) ==
  /\ f \in FieldStates /\ f.from <= f.to /\ f.to <= Len(f.text)
  /\ f.menu # "pending" /\ f.focused /\ ~f.readOnly /\ f.marked = "none"
  /\ f.area # f.prev \/ Selects(f)

\* What was seen, and what is new in the area with regard to it.
NewIn(f, s, w, word) ==
  /\ Readable(f) /\ s = Seen(f) /\ s \in Seq(AreaKey)
  /\ \A i \in 1..Len(s) : s[i] # LineEnd
  /\ w \in 0..Len(s) /\ w <= f.from /\ (Selects(f) => w = 0)
  /\ \A i \in 1..w : s[Len(s) - w + i] = f.text[f.from - w + i]
  /\ word \in Seq(Key) /\ f.area = SubSeq(s, 1, Len(s) - w) \o word

\* Poll puts the word into the text for those characters, unless it went astray.
LEMMA PollPuts ==
  ASSUME NEW f, NEW s, NEW w, NEW word, NewIn(f, s, w, word), NEW g, g = Poll(f)
  PROVE  \/ g.astray
         \/ g = [Became(f, Put(f.text, f.from - w, f.to, word), f.from - w + Len(word))
                   EXCEPT !.prev = f.area]
<1> SUFFICES ASSUME Readable(f), s = Seen(f), s \in Seq(AreaKey),
                    \A i \in 1..Len(s) : s[i] # LineEnd,
                    w \in 0..Len(s), w <= f.from, Selects(f) => w = 0,
                    \A i \in 1..w : s[Len(s) - w + i] = f.text[f.from - w + i],
                    word \in Seq(Key), f.area = SubSeq(s, 1, Len(s) - w) \o word
             PROVE  \/ g.astray
                    \/ g = [Became(f, Put(f.text, f.from - w, f.to, word),
                                   f.from - w + Len(word)) EXCEPT !.prev = f.area]
  BY DEF NewIn
<1>0. /\ f \in FieldStates /\ f.from <= f.to /\ f.to <= Len(f.text)
      /\ f.text \in Seq(Written) /\ f.from \in 0..Len(f.text) /\ f.from \in Nat /\ f.to \in Nat
      /\ Len(f.text) \in Nat /\ Len(word) \in Nat /\ w \in Nat /\ Len(s) \in Nat
      /\ f.area \in Seq(AreaKey) /\ f.astray \in BOOLEAN
  <2>1. f \in FieldStates /\ f.from <= f.to /\ f.to <= Len(f.text)
    BY DEF Readable
  <2>2. /\ f.text \in Seq(Written) /\ f.from \in Nat /\ f.to \in Nat
        /\ f.area \in Seq(AreaKey) /\ f.astray \in BOOLEAN
    BY <2>1 DEF FieldStates
  <2>3. Len(f.text) \in Nat /\ Len(word) \in Nat /\ Len(s) \in Nat
    BY <2>2, LenProperties
  <2> QED BY <2>1, <2>2, <2>3
<1>10. /\ f.from <= f.to /\ f.to <= Len(f.text) /\ f.from \in Nat /\ f.to \in Nat
       /\ Len(f.text) \in Nat /\ Len(word) \in Nat /\ w \in Nat /\ Len(s) \in Nat
       /\ w <= Len(s)
  BY <1>0
<1>1. Written \subseteq AreaKey /\ Key \subseteq AreaKey /\ Key \subseteq Written
  BY DEF AreaKey, Written
<1>2. word \in Seq(AreaKey) /\ word \in Seq(Written)
  BY <1>1, SeqMonotonic
<1> PICK area : area = f.area
  OBVIOUS
<1> PICK c : c = Common(s, area)
  OBVIOUS
<1> PICK u : u = c - (Len(s) - w)
  OBVIOUS
<1> PICK new : new = SubSeq(area, c + 1, Len(area))
  OBVIOUS
<1> PICK gone : gone = Len(s) - c
  OBVIOUS
<1>3. /\ area \in Seq(AreaKey) /\ Len(area) = Len(s) - w + Len(word)
      /\ \A i \in 1..Len(s) - w : area[i] = s[i]
      /\ \A i \in 1..Len(word) : area[Len(s) - w + i] = word[i]
      /\ u \in 0..Len(word) /\ u \in 0..w /\ Len(s) - c = w - u
      /\ \A i \in 1..u : word[i] = s[Len(s) - w + i]
      /\ new = SubSeq(word, u + 1, Len(word))
  <2>1. area = SubSeq(s, 1, Len(s) - w) \o word
    OBVIOUS
  <2>2. area \in Seq(AreaKey) /\ HoldsWord(area, s, w, word, c, u)
    BY ONLY s \in Seq(AreaKey), <1>2, w \in 0..Len(s), <2>1, c = Common(s, area),
            u = c - (Len(s) - w), NewIs
  <2> QED BY ONLY <2>2, new = SubSeq(area, c + 1, Len(area)) DEF HoldsWord
<1>4. new \in Seq(Written) /\ Len(new) = Len(word) - u
  <2>1. Len(word) \in u..Len(word) /\ u \in 0..Len(word)
    BY <1>0, <1>3
  <2>2. new \in Seq(Written) /\ IsPart(new, word, u, Len(word))
    BY ONLY <1>2, <1>3, <2>1, PartIs
  <2> QED BY ONLY <2>2 DEF IsPart
<1>5. /\ gone \in 0..f.from /\ gone \in Nat /\ gone = w - u /\ gone <= w
      /\ f.from - gone = f.from - w + u /\ f.from - gone + Len(new) = f.from - w + Len(word)
      /\ f.from - w \in 0..Len(f.text) /\ f.to \in f.from - w..Len(f.text)
      /\ f.from - w + u <= f.to
  <2>1. u \in Nat /\ u <= Len(word) /\ u <= w /\ gone = w - u /\ Len(new) = Len(word) - u
    BY ONLY <1>3, <1>4, gone = Len(s) - c, <1>10
  <2> QED BY ONLY SMTT(30), <1>10, <2>1, w <= f.from
<1>6. Selects(f) => gone = 0
  BY ONLY <1>3, <1>5, Selects(f) => w = 0
<1>7. LineEnd \notin ToSet(area)
  <2> SUFFICES ASSUME NEW i \in 1..Len(area), area[i] = LineEnd PROVE FALSE
    BY <1>3, LenProperties, ZenonT(60) DEF ToSet
  <2>1. CASE i \in 1..Len(s) - w
    <3>1. i \in 1..Len(s)
      BY ONLY <1>0, <2>1
    <3> QED BY <1>3, <2>1, <3>1
  <2>2. CASE i \notin 1..Len(s) - w
    <3> PICK k : k = i - (Len(s) - w)
      OBVIOUS
    <3>1. k \in 1..Len(word) /\ i = Len(s) - w + k
      BY ONLY SMTT(30), <1>0, <1>3, <2>2, i \in 1..Len(area), k = i - (Len(s) - w), w \in 0..Len(s)
    <3>2. word[k] \in Key
      BY <3>1, ElementOfSeq
    <3>3. area[i] = word[k]
      BY ONLY <1>3, <3>1
    <3> QED BY ONLY <3>2, <3>3, area[i] = LineEnd, FieldAssumption
  <2> QED BY ONLY <2>1, <2>2
<1>8. \A i \in f.from - gone + 1..f.from : f.text[i] # LineEnd
  <2> SUFFICES ASSUME NEW i \in f.from - gone + 1..f.from PROVE f.text[i] # LineEnd
    OBVIOUS
  <2> PICK k : k = i - (f.from - w)
    OBVIOUS
  <2>0. gone \in Nat /\ gone <= w /\ i \in Int /\ f.from - gone + 1 <= i /\ i <= f.from
    BY <1>10, <1>5
  <2>1. k \in 1..w /\ i = f.from - w + k
    BY ONLY <1>10, <2>0, w <= f.from, k = i - (f.from - w)
  <2>4. Len(s) - w + k \in 1..Len(s)
    BY ONLY <1>10, <2>1
  <2>2. s[Len(s) - w + k] = f.text[f.from - w + k]
    BY <2>1
  <2>3. s[Len(s) - w + k] # LineEnd
    BY ONLY <2>4, \A j \in 1..Len(s) : s[j] # LineEnd
  <2> QED BY ONLY <2>1, <2>2, <2>3
<1> PICK out : out = ApplyTextInput(f, new, gone)
  OBVIOUS
<1> PICK astray : astray = (WholeLine(f, new, gone) \/ ZeroWidth \in ToSet(new))
  OBVIOUS
<1>9. g = [[out EXCEPT !.astray = @ \/ WholeLine(f, new, gone) \/ ZeroWidth \in ToSet(new)]
              EXCEPT !.prev = f.area]
  <2>1. ~(\/ f.menu = "pending" \/ ~f.focused \/ f.readOnly
          \/ HasSelection(f) /\ f.prev = <<>> /\ ~f.composing
          \/ f.area = f.prev /\ ~Selects(f))
    BY DEF HasSelection, Readable
  <2>2. LineEnd \notin ToSet(f.area)
    BY <1>7
  <2>3. s = IF f.forMenu /\ f.prev = <<>> /\ f.area # <<>> /\ f.area[1] = ZeroWidth
            THEN <<ZeroWidth>> ELSE f.prev
    BY Zenon DEF Seen
  <2> QED BY ONLY g = Poll(f), area = f.area, c = Common(s, area), gone = Len(s) - c,
                  new = SubSeq(area, c + 1, Len(area)), out = ApplyTextInput(f, new, gone),
                  <2>1, <2>2, <2>3 DEF Poll
<1>11. CASE WholeLine(f, new, gone) \/ ZeroWidth \in ToSet(new)
  <2>1. "astray" \in DOMAIN out
    BY <1>0 DEF ApplyTextInput, FieldStates
  <2> QED BY ONLY <1>9, <1>11, <2>1
<1>12. CASE ~(WholeLine(f, new, gone) \/ ZeroWidth \in ToSet(new))
  <2>1. out = Became(f, Put(f.text, f.from - gone, f.to, new), f.from - gone + Len(new))
    BY ONLY <1>0, <1>4, <1>5, <1>6, <1>8, <1>12, out = ApplyTextInput(f, new, gone), ApplyIs
  <2>2. Put(f.text, f.from - w + u, f.to, new) = Put(f.text, f.from - w, f.to, word)
    <3> PICK from : from = f.from - w
      OBVIOUS
    <3>1. ASSUME NEW i \in 1..u PROVE word[i] = f.text[from + i]
      <4>1. i \in 1..w
        BY ONLY <1>3, <1>10, i \in 1..u
      <4>2. s[Len(s) - w + i] = f.text[f.from - w + i]
        BY ONLY <4>1, \A j \in 1..w : s[Len(s) - w + j] = f.text[f.from - w + j]
      <4> QED BY ONLY <1>3, <4>2, i \in 1..u, from = f.from - w
    <3>2. /\ from \in 0..Len(f.text) /\ f.to \in from..Len(f.text) /\ from + u <= f.to
          /\ u \in 0..Len(word) /\ f.text \in Seq(Written)
      BY ONLY <1>0, <1>3, <1>5, from = f.from - w
    <3>3. Put(f.text, from + u, f.to, new) = Put(f.text, from, f.to, word)
      <4>1. new = SubSeq(word, u + 1, Len(word)) /\ new \in Seq(Written) /\ word \in Seq(Written)
        BY ONLY <1>2, <1>3, <1>4
      <4> PICK text : text = f.text
        OBVIOUS
      <4> PICK to : to = f.to
        OBVIOUS
      <4>2. /\ text \in Seq(Written) /\ from \in 0..Len(text) /\ to \in from..Len(text)
            /\ u \in 0..Len(word) /\ from + u <= to
            /\ \A i \in 1..u : word[i] = text[from + i]
        BY ONLY <3>1, <3>2, text = f.text, to = f.to
      <4> PICK at : at = from + u
        OBVIOUS
      <4>3. Put(text, at, to, new) = Put(text, from, to, word)
        <5>1. Started(Written, text, from, to, word, u, new, at)
          BY ONLY <4>1, <4>2, at = from + u DEF Started
        <5> QED BY ONLY <5>1, PutRest
      <4> QED BY ONLY <4>3, text = f.text, to = f.to, at = from + u
    <3> QED BY ONLY <3>3, from = f.from - w
  <2>3. out = Became(f, Put(f.text, f.from - w, f.to, word), f.from - w + Len(word))
    BY ONLY <1>5, <2>1, <2>2
  <2> PICK text : text = Put(f.text, f.from - w, f.to, word)
    OBVIOUS
  <2> PICK p : p = f.from - w + Len(word)
    OBVIOUS
  <2>5. text \in Seq(Written) /\ p \in Nat
    <3> PICK from : from = f.from - w
      OBVIOUS
    <3>1. /\ from \in 0..Len(f.text) /\ f.to \in from..Len(f.text) /\ p \in Nat
          /\ f.text \in Seq(Written) /\ text = Put(f.text, from, f.to, word)
      BY ONLY <1>0, <1>5, from = f.from - w, text = Put(f.text, f.from - w, f.to, word),
              p = f.from - w + Len(word)
    <3> QED BY ONLY <1>2, <3>1, PutIs
  <2>6. out = Became(f, text, p)
    BY <2>3
  <2>7. out \in FieldStates
    <3>1. Turned(out, f, text, p)
      BY ONLY <1>0, <2>5, <2>6, BecameIs
    <3> QED BY ONLY <3>1 DEF Turned
  <2>4. [out EXCEPT !.astray = @ \/ WholeLine(f, new, gone) \/ ZeroWidth \in ToSet(new)] = out
    BY ONLY <1>12, <2>7 DEF FieldStates
  <2> QED BY ONLY <1>9, <2>3, <2>4
<1> QED BY <1>11, <1>12

\* Whatever is read, the editor is as much in focus as before, and the timer as
\* it was; and nothing is read without the focus or in what is not to be
\* changed.
PollKeeps(g, f) ==
  /\ DOMAIN g = DOMAIN f /\ g.focused = f.focused /\ g.timer = f.timer
  /\ f.readOnly => g = f

LEMMA PollIs ==
  ASSUME NEW f \in FieldStates, NEW g, g = Poll(f)
  PROVE  PollKeeps(g, f)
<1> PICK seen : seen = IF f.forMenu /\ f.prev = <<>> /\ f.area # <<>> /\ f.area[1] = ZeroWidth
                       THEN <<ZeroWidth>> ELSE f.prev
  OBVIOUS
<1> PICK same : same = Common(seen, f.area)
  OBVIOUS
<1> PICK new : new = SubSeq(f.area, same + 1, Len(f.area))
  OBVIOUS
<1> PICK gone : gone = Len(seen) - same
  OBVIOUS
<1> PICK put : put = ApplyTextInput(f, new, gone)
  OBVIOUS
<1> PICK out : out = [put EXCEPT !.astray = @ \/ WholeLine(f, new, gone)
                                              \/ ZeroWidth \in ToSet(new)]
  OBVIOUS
<1>1. DOMAIN put = DOMAIN f /\ put.focused = f.focused /\ put.timer = f.timer
  <2>1. \E text, p : put = [f EXCEPT !.text = text, !.from = p, !.to = p, !.forMenu = FALSE]
    BY ONLY put = ApplyTextInput(f, new, gone), Zenon DEF ApplyTextInput
  <2> QED BY ONLY <2>1, f \in FieldStates DEF FieldStates
<1>2. DOMAIN out = DOMAIN f /\ out.focused = f.focused /\ out.timer = f.timer
  BY ONLY <1>1, out = [put EXCEPT !.astray = @ \/ WholeLine(f, new, gone)
                                              \/ ZeroWidth \in ToSet(new)], f \in FieldStates
     DEF FieldStates
<1>3. /\ f.readOnly => g = f
      /\ g = f \/ g = [out EXCEPT !.area = <<>>, !.prev = <<>>, !.marked = "none"]
               \/ g = [out EXCEPT !.prev = f.area]
  BY Zenon DEF Poll
<1> QED BY ONLY <1>2, <1>3, f \in FieldStates, ZenonT(60) DEF FieldStates, PollKeeps

\* What is in the area is read only once.
LEMMA PollRests ==
  ASSUME NEW f, Shape(f), NEW g, g = Poll(f)
  PROVE  g = f
<1> SUFFICES ASSUME f.menu # "pending", f.focused, ~f.readOnly
             PROVE  \/ HasSelection(f) /\ f.prev = <<>> /\ ~f.composing
                    \/ f.area = f.prev /\ ~Selects(f)
  BY DEF Poll
<1>1. AreaKnown(f)
  BY DEF Shape
<1>2. f.area \in Seq(AreaKey)
  BY DEF Shape, Loose, FieldStates
<1>3. CASE Selects(f)
  <2>1. WithSelection(f)
    BY <1>1, <1>3 DEF AreaKnown
  <2>2. HasSelection(f)
    BY ONLY <2>1, f.focused DEF WithSelection
  <2> QED BY <2>1, <2>2 DEF WithSelection
<1>4. CASE ~Selects(f)
  <2>1. CASE AsSeen(f) \/ MenuOpen(f)
    BY <1>4, <2>1 DEF AsSeen, MenuOpen
  <2>2. CASE LineCopied(f) \/ PastedOver(f)
    BY <1>2, <1>4, <2>2 DEF LineCopied, PastedOver, HasSelection
  <2> QED BY <1>1, <1>4, <2>1, <2>2 DEF AreaKnown
<1> QED BY <1>3, <1>4

\* What a step leaves that only reads the area, or writes it.
SameOffArea(g, f) ==
  /\ g \in FieldStates
  /\ g.text = f.text /\ g.from = f.from /\ g.to = f.to
  /\ g.focused = f.focused /\ g.composing = f.composing /\ g.composed = f.composed
  /\ g.menu = f.menu /\ g.forMenu = f.forMenu /\ g.copied = f.copied
  /\ g.timer = f.timer /\ g.readOnly = f.readOnly /\ g.meant = f.meant
  /\ g.astray = f.astray
InArea(g, area, prev, marked) == g.area = area /\ g.prev = prev /\ g.marked = marked

\* The area is made to hold what is selected, or nothing.
WasReset(g, f) ==
  /\ SameOffArea(g, f)
  /\ f.menu = "pending" => g = f
  /\ f.menu # "pending" /\ Selects(f) =>
       /\ g.area # <<>> /\ g.prev = <<>>
       /\ g.marked = IF f.focused THEN "all" ELSE "none"
  /\ f.menu # "pending" /\ ~Selects(f) => InArea(g, <<>>, <<>>, "none")

\* So does Reset, when it is not for typing.
LEMMA ResetIs ==
  ASSUME NEW f \in FieldStates, f.from <= f.to, f.to <= Len(f.text),
         NEW g, g = Reset(f, FALSE)
  PROVE  WasReset(g, f)
<1>0. /\ f.text \in Seq(Written) /\ f.from \in 0..Len(f.text) /\ f.from \in Nat /\ f.to \in Nat
      /\ f.to \in f.from..Len(f.text) /\ f.focused \in BOOLEAN
  BY LenProperties DEF FieldStates
<1> PICK part : part = SelectedText(f)
  OBVIOUS
<1>1. part \in Seq(AreaKey) /\ Len(part) = f.to - f.from
  <2>1. part \in Seq(Written) /\ IsPart(part, f.text, f.from, f.to)
    BY ONLY <1>0, part = SelectedText(f), PartIs DEF SelectedText
  <2>2. Written \subseteq AreaKey
    BY DEF AreaKey
  <2> QED BY <2>1, <2>2, SeqMonotonic DEF IsPart
<1> PICK m : m = IF f.focused THEN "all" ELSE "none"
  OBVIOUS
<1>2. m \in {"none", "all"}
  OBVIOUS
<1>3. CASE f.menu = "pending"
  <2>1. g = f
    BY <1>3 DEF Reset
  <2> QED BY <1>3, <2>1 DEF WasReset, SameOffArea
<1>4. CASE f.menu # "pending" /\ Selects(f)
  <2>1. g = [f EXCEPT !.prev = <<>>, !.area = part, !.marked = m]
    BY <1>4 DEF Reset
  <2>2. part # <<>>
    BY <1>0, <1>1, <1>4 DEF Selects
  <2> PICK none : none = <<>>
    OBVIOUS
  <2>4. none \in Seq(AreaKey)
    BY EmptySeq
  <2>5. g = [f EXCEPT !.prev = none, !.area = part, !.marked = m]
    BY <2>1
  <2>3. SameOffArea(g, f) /\ g.area = part /\ g.prev = none /\ g.marked = m
    BY ONLY <1>1, <1>2, <2>4, <2>5, f \in FieldStates DEF SameOffArea, FieldStates
  <2> QED BY <1>4, <2>2, <2>3 DEF WasReset
<1>5. CASE f.menu # "pending" /\ ~Selects(f)
  <2>1. g = [f EXCEPT !.prev = <<>>, !.area = <<>>, !.marked = "none"]
    BY <1>5 DEF Reset
  <2> PICK none : none = <<>>
    OBVIOUS
  <2>4. none \in Seq(AreaKey)
    BY EmptySeq
  <2>5. g = [f EXCEPT !.prev = none, !.area = none, !.marked = "none"]
    BY <2>1
  <2>2. SameOffArea(g, f) /\ InArea(g, none, none, "none")
    BY ONLY <2>4, <2>5, f \in FieldStates DEF SameOffArea, InArea, FieldStates
  <2> QED BY <1>5, <2>2 DEF WasReset
<1> QED BY <1>3, <1>4, <1>5

\* Something selected: the area is known again.
NowSelects(g, f, from, to) ==
  /\ Loose(g) /\ g.text = f.text /\ g.from = from /\ g.to = to /\ ~g.forMenu
  /\ g.focused = f.focused /\ g.composing = f.composing /\ g.composed = f.composed
  /\ g.menu = f.menu /\ g.copied = f.copied /\ g.timer = f.timer
  /\ g.readOnly = f.readOnly /\ g.meant = f.meant /\ g.astray = f.astray
  /\ ~f.composing => AreaKnown(g)

\* Whatever was in the area before, after a selection is set it is known.
LEMMA SelectingIs ==
  ASSUME NEW f, Loose(f), NEW from \in Nat, NEW to \in Nat, from <= to, to <= Len(f.text),
         NEW g, g = Selecting(f, from, to)
  PROVE  NowSelects(g, f, from, to)
<1> PICK e : e = [f EXCEPT !.from = from, !.to = to, !.forMenu = FALSE]
  OBVIOUS
<1>0. /\ f \in FieldStates
      /\ f.composing => f.focused /\ f.menu # "pending"
      /\ f.marked = "rest" => f.area # <<>> /\ ~f.composing
      /\ (f.menu = "pending" => f.area # <<>>) /\ (~f.composing => f.composed = 0)
  BY DEF Loose
<1>1. /\ e \in FieldStates /\ e.text = f.text /\ e.from = from /\ e.to = to /\ ~e.forMenu
      /\ e.focused = f.focused /\ e.composing = f.composing /\ e.composed = f.composed
      /\ e.menu = f.menu /\ e.copied = f.copied /\ e.timer = f.timer
      /\ e.readOnly = f.readOnly /\ e.meant = f.meant /\ e.astray = f.astray
      /\ InArea(e, f.area, f.prev, f.marked)
  BY ONLY <1>0, from \in Nat, to \in Nat,
          e = [f EXCEPT !.from = from, !.to = to, !.forMenu = FALSE] DEF FieldStates, InArea
<1>2. CASE ~e.focused
  <2>1. g = e
    BY <1>2 DEF Selecting
  <2>2. Loose(g) /\ AreaKnown(g)
    BY <1>0, <1>1, <1>2, <2>1 DEF Loose, AreaKnown, InArea
  <2> QED BY <1>1, <2>1, <2>2 DEF NowSelects
<1>3. CASE e.focused
  <2>1. WasReset(g, e)
    <3>1. g = Reset(e, FALSE) /\ e.from <= e.to /\ e.to <= Len(e.text)
      BY <1>1, <1>3 DEF Selecting
    <3> QED BY <1>1, <3>1, ResetIs
  <2>2. SameOffArea(g, e)
    BY <2>1 DEF WasReset
  <2>3. /\ g \in FieldStates /\ g.text = f.text /\ g.from = from /\ g.to = to /\ ~g.forMenu
        /\ g.focused = f.focused /\ g.composing = f.composing /\ g.composed = f.composed
        /\ g.menu = f.menu /\ g.copied = f.copied /\ g.timer = f.timer
        /\ g.readOnly = f.readOnly /\ g.meant = f.meant /\ g.astray = f.astray
    BY <1>1, <2>2 DEF SameOffArea
  <2>4. Loose(g)
    <3>1. g.menu = "pending" => g.area # <<>>
      BY <1>0, <1>1, <2>1, <2>3 DEF WasReset, InArea
    <3>2. g.marked = "rest" => g.area # <<>> /\ ~g.composing
      <4>1. CASE e.menu = "pending"
        <5>1. g = e
          BY <2>1, <4>1 DEF WasReset
        <5> QED BY <1>0, <1>1, <5>1 DEF InArea
      <4>2. CASE e.menu # "pending" /\ Selects(e)
        <5>1. g.marked = IF e.focused THEN "all" ELSE "none"
          BY <2>1, <4>2 DEF WasReset
        <5> QED BY ONLY <5>1
      <4>3. CASE e.menu # "pending" /\ ~Selects(e)
        <5>1. g.marked = "none"
          BY <2>1, <4>3 DEF WasReset, InArea
        <5> QED BY ONLY <5>1
      <4> QED BY ONLY <4>1, <4>2, <4>3
    <3> QED BY <1>0, <2>3, <3>1, <3>2 DEF Loose
  <2>5. ASSUME ~f.composing PROVE AreaKnown(g)
    <3> SUFFICES ASSUME g.menu # "pending"
                 PROVE  IF Selects(g) THEN WithSelection(g) ELSE AsSeen(g)
      BY DEF AreaKnown
    <3>1. Selects(g) <=> Selects(e)
      BY <1>1, <2>3 DEF Selects
    <3>2. CASE Selects(g)
      <4>1. g.area # <<>> /\ g.prev = <<>> /\ g.marked = "all"
        BY <1>1, <1>3, <2>1, <2>3, <3>1, <3>2 DEF WasReset
      <4> QED BY <2>3, <2>5, <3>2, <4>1 DEF WithSelection, HasSelection
    <3>3. CASE ~Selects(g)
      <4>1. InArea(g, <<>>, <<>>, "none")
        BY <1>1, <2>1, <2>3, <3>1, <3>3 DEF WasReset
      <4>2. g.composed = 0 /\ g.from \in Nat
        BY <1>0, <2>3, <2>5
      <4> QED BY <2>3, <3>3, <4>1, <4>2 DEF AsSeen, InArea
    <3> QED BY <3>2, <3>3
  <2> QED BY <2>3, <2>4, <2>5 DEF NowSelects
<1> QED BY <1>2, <1>3

-----------------------------------------------------------------------------
\* What was put in, and with it the area seen.
Taken(g, f, text, p) ==
  /\ g \in FieldStates
  /\ g.text = text /\ g.from = p /\ g.to = p /\ ~g.forMenu
  /\ g.area = f.area /\ g.marked = f.marked /\ g.prev = f.area
  /\ g.focused = f.focused /\ g.composing = f.composing /\ g.composed = f.composed
  /\ g.menu = f.menu /\ g.copied = f.copied /\ g.timer = f.timer
  /\ g.readOnly = f.readOnly /\ g.meant = f.meant /\ g.astray = f.astray

\* The fields of such a state.
LEMMA TakenIs ==
  ASSUME NEW f \in FieldStates, NEW text \in Seq(Written), NEW p \in Nat,
         NEW g, g = [Became(f, text, p) EXCEPT !.prev = f.area]
  PROVE  Taken(g, f, text, p)
<1> PICK e : e = Became(f, text, p)
  OBVIOUS
<1>1. Turned(e, f, text, p)
  BY BecameIs
<1>2. g = [e EXCEPT !.prev = f.area] /\ f.area \in Seq(AreaKey) /\ e \in FieldStates
  BY <1>1 DEF Turned, FieldStates
<1>3. /\ g \in FieldStates /\ g.prev = f.area
      /\ g.text = e.text /\ g.from = e.from /\ g.to = e.to /\ g.forMenu = e.forMenu
      /\ g.area = e.area /\ g.marked = e.marked
      /\ g.focused = e.focused /\ g.composing = e.composing /\ g.composed = e.composed
      /\ g.menu = e.menu /\ g.copied = e.copied /\ g.timer = e.timer
      /\ g.readOnly = e.readOnly /\ g.meant = e.meant /\ g.astray = e.astray
  BY ONLY <1>2 DEF FieldStates
<1> QED BY ONLY <1>1, <1>3 DEF Turned, Taken

\* Something entered in the area, nothing else changed but the timer, or that
\* something is being composed.
EnteredAs(e, f, keys) ==
  /\ e \in FieldStates
  /\ e.text = f.text /\ e.from = f.from /\ e.to = f.to
  /\ e.focused = f.focused /\ e.composed = f.composed
  /\ e.menu = f.menu /\ e.forMenu = f.forMenu /\ e.copied = f.copied
  /\ e.readOnly = f.readOnly /\ e.meant = f.meant /\ e.astray = f.astray
  /\ e.prev = f.prev /\ e.marked = "none"
  /\ f.marked = "all" => e.area = keys
  /\ f.marked = "rest" => e.area = <<f.area[1]>> \o keys
  /\ f.marked = "none" => e.area = f.area \o keys

\* So does Entered.
LEMMA EnteredIs ==
  ASSUME NEW f \in FieldStates, f.marked = "rest" => f.area # <<>>,
         NEW keys \in Seq(Key), NEW e, e = Entered(f, keys)
  PROVE  EnteredAs(e, f, keys) /\ e.timer = f.timer /\ e.composing = f.composing
<1> PICK area : area = IF f.marked = "all" THEN keys
                       ELSE IF f.marked = "rest" THEN <<Head(f.area)>> \o keys
                       ELSE f.area \o keys
  OBVIOUS
<1>0. f.area \in Seq(AreaKey) /\ keys \in Seq(AreaKey)
  <2>1. Key \subseteq AreaKey
    BY DEF AreaKey, Written
  <2> QED BY <2>1, SeqMonotonic DEF FieldStates
<1>1. f.area # <<>> => Head(f.area) = f.area[1] /\ <<f.area[1]>> \in Seq(AreaKey)
  <2> SUFFICES ASSUME f.area # <<>> PROVE Head(f.area) = f.area[1] /\ <<f.area[1]>> \in Seq(AreaKey)
    OBVIOUS
  <2> PICK x : x = f.area[1]
    OBVIOUS
  <2>1. Len(f.area) \in Nat \ {0}
    BY <1>0, EmptySeq
  <2>2. x \in AreaKey
    BY <1>0, <2>1, ElementOfSeq
  <2>3. Head(f.area) = f.area[1]
    BY <1>0, <2>1
  <2> QED BY <2>2, <2>3
<1>2. area \in Seq(AreaKey)
  <2>1. CASE f.marked = "all"
    BY <1>0, <2>1
  <2>2. CASE f.marked = "rest"
    <3> PICK one : one = <<Head(f.area)>>
      OBVIOUS
    <3>1. one \in Seq(AreaKey) /\ area = one \o keys
      BY <1>1, <2>2
    <3> QED BY <1>0, <3>1, ConcatProperties
  <2>3. CASE f.marked # "all" /\ f.marked # "rest"
    <3>1. area = f.area \o keys
      BY <2>3
    <3> QED BY <1>0, <3>1, ConcatProperties
  <2> QED BY <2>1, <2>2, <2>3
<1>3. e = [f EXCEPT !.area = area, !.marked = "none"]
  BY DEF Entered
<1>4. /\ e \in FieldStates
      /\ e.text = f.text /\ e.from = f.from /\ e.to = f.to
      /\ e.focused = f.focused /\ e.composed = f.composed
      /\ e.menu = f.menu /\ e.forMenu = f.forMenu /\ e.copied = f.copied
      /\ e.readOnly = f.readOnly /\ e.meant = f.meant /\ e.astray = f.astray
      /\ e.prev = f.prev /\ e.marked = "none" /\ e.area = area
      /\ e.timer = f.timer /\ e.composing = f.composing
  BY ONLY <1>2, <1>3, f \in FieldStates DEF FieldStates
<1>5. /\ f.marked = "all" => area = keys
      /\ f.marked = "rest" => area = <<f.area[1]>> \o keys
      /\ f.marked = "none" => area = f.area \o keys
  BY <1>1
<1> QED BY ONLY <1>4, <1>5 DEF EnteredAs

\* It is taken, and the last n characters of the area are before the cursor.
TakenIn(g, f, text, p, n) ==
  /\ Taken(g, f, text, p)
  /\ text \in Seq(Written) /\ p \in Nat /\ p <= Len(text)
  /\ \A i \in 1..Len(f.area) : f.area[i] # LineEnd
  /\ n \in Nat /\ n <= p /\ n <= Len(f.area)
  /\ \A i \in 1..n : f.area[Len(f.area) - n + i] = text[p - n + i]

\* What poll puts in, it takes.
LEMMA PollTakes ==
  ASSUME NEW f, NEW s, NEW w, NEW word, NewIn(f, s, w, word), NEW g, g = Poll(f),
         NEW text, text = Put(f.text, f.from - w, f.to, word),
         NEW n, n = Len(word), NEW p, p = f.from - w + n
  PROVE  g.astray \/ TakenIn(g, f, text, p, n)
<1>0. /\ Readable(f) /\ s = Seen(f) /\ s \in Seq(AreaKey)
      /\ \A i \in 1..Len(s) : s[i] # LineEnd
      /\ w \in 0..Len(s) /\ w <= f.from /\ (Selects(f) => w = 0)
      /\ \A i \in 1..w : s[Len(s) - w + i] = f.text[f.from - w + i]
      /\ word \in Seq(Key) /\ f.area = SubSeq(s, 1, Len(s) - w) \o word
  BY DEF NewIn
<1>1. /\ f \in FieldStates /\ f.text \in Seq(Written) /\ f.area \in Seq(AreaKey)
      /\ f.from \in Nat /\ f.to \in Nat /\ Len(f.text) \in Nat
      /\ Len(s) \in Nat /\ n \in Nat /\ w \in Nat /\ w <= Len(s)
      /\ f.from <= f.to /\ f.to <= Len(f.text)
  <2>1. f \in FieldStates /\ f.from <= f.to /\ f.to <= Len(f.text)
    BY <1>0 DEF Readable
  <2>2. /\ f.text \in Seq(Written) /\ f.area \in Seq(AreaKey)
        /\ f.from \in Nat /\ f.to \in Nat
    BY <2>1 DEF FieldStates
  <2>3. Len(f.text) \in Nat /\ Len(s) \in Nat /\ n \in Nat
    BY <1>0, <2>2, LenProperties
  <2> QED BY <1>0, <2>1, <2>2, <2>3
<1>2. /\ word \in Seq(AreaKey) /\ word \in Seq(Written)
      /\ \A i \in 1..n : word[i] # LineEnd
  <2>1. Key \subseteq AreaKey /\ Key \subseteq Written
    BY DEF AreaKey, Written
  <2>2. word \in Seq(AreaKey) /\ word \in Seq(Written)
    BY <1>0, <2>1, SeqMonotonic
  <2>3. ASSUME NEW i \in 1..n PROVE word[i] # LineEnd
    <3>1. word[i] \in Key
      BY <1>0, ElementOfSeq
    <3> QED BY <3>1, FieldAssumption
  <2> QED BY <2>2, <2>3
<1>3. g.astray \/ g = [Became(f, text, p) EXCEPT !.prev = f.area]
  <2>1. \/ g.astray
        \/ g = [Became(f, Put(f.text, f.from - w, f.to, word), f.from - w + Len(word))
                  EXCEPT !.prev = f.area]
    BY PollPuts
  <2> QED BY <2>1
<1> PICK at : at = f.from - w
  OBVIOUS
<1>4. at \in 0..Len(f.text) /\ f.to \in at..Len(f.text) /\ at \in Nat /\ p = at + n
  <2>1. w <= f.from
    BY <1>0
  <2> QED BY ONLY SMTT(30), <1>1, <2>1, at = f.from - w, p = f.from - w + n
<1>5. text \in Seq(Written) /\ IsPut(text, f.text, at, f.to, word)
  <2>1. text = Put(f.text, at, f.to, word)
    BY ONLY text = Put(f.text, f.from - w, f.to, word), at = f.from - w
  <2> QED BY ONLY <1>1, <1>2, <1>4, <2>1, PutIs
<1>6. p \in Nat /\ n <= p /\ p - n = at /\ p <= Len(text)
  <2>1. Len(text) = at + n + Len(f.text) - f.to
    BY ONLY <1>5, n = Len(word) DEF IsPut
  <2> QED BY ONLY <1>1, <1>4, <2>1
<1> PICK kept : kept = Len(s) - w
  OBVIOUS
<1> PICK head : head = SubSeq(s, 1, kept)
  OBVIOUS
<1>7. /\ kept \in Nat /\ Len(head) = kept /\ IsPart(head, s, 0, kept)
      /\ IsBoth(f.area, head, word)
  <2>1. kept \in 0..Len(s) /\ kept \in Nat
    BY ONLY <1>1, kept = Len(s) - w
  <2>2. head \in Seq(AreaKey) /\ IsPart(head, s, 0, kept)
    BY ONLY <1>0, <2>1, head = SubSeq(s, 1, kept), HeadIs
  <2>3. IsBoth(f.area, head, word)
    <3>1. f.area = head \o word
      BY <1>0
    <3> QED BY ONLY <1>2, <2>2, <3>1, BothIs
  <2>4. Len(head) = kept
    BY ONLY <2>1, <2>2 DEF IsPart
  <2> QED BY <2>1, <2>2, <2>3, <2>4
<1>8. Len(f.area) = kept + n
  BY ONLY <1>7, n = Len(word) DEF IsBoth
<1>9. ASSUME NEW i \in 1..Len(f.area) PROVE f.area[i] # LineEnd
  <2>1. CASE i <= kept
    <3>1. i \in 1..kept - 0 /\ 0 + i = i /\ i \in 1..Len(head) /\ i \in 1..Len(s)
      BY ONLY <1>1, <1>7, <1>8, <2>1, i \in 1..Len(f.area), kept = Len(s) - w
    <3>2. head[i] = s[0 + i]
      BY ONLY <1>7, <3>1 DEF IsPart
    <3> QED BY ONLY <1>0, <1>7, <3>1, <3>2 DEF IsBoth
  <2>2. CASE kept < i
    <3> PICK k : k = i - kept
      OBVIOUS
    <3>1. k \in 1..n /\ i = Len(head) + k /\ k \in 1..Len(word)
      BY ONLY <1>1, <1>7, <1>8, <2>2, i \in 1..Len(f.area), k = i - kept, n = Len(word)
    <3> QED BY ONLY <1>2, <1>7, <3>1 DEF IsBoth
  <2> QED BY ONLY <1>7, <1>8, <1>1, <2>1, <2>2, i \in 1..Len(f.area)
<1>10. ASSUME NEW i \in 1..n PROVE f.area[Len(f.area) - n + i] = text[p - n + i]
  <2>1. i \in 1..Len(word) /\ Len(f.area) - n = Len(head) /\ p - n = at
    BY ONLY <1>1, <1>4, <1>7, <1>8, i \in 1..n, n = Len(word)
  <2>2. f.area[Len(head) + i] = word[i]
    BY ONLY <1>7, <2>1 DEF IsBoth
  <2>3. text[at + i] = word[i]
    BY ONLY <1>5, <2>1 DEF IsPut
  <2> QED BY ONLY <2>1, <2>2, <2>3
<1>11. n <= Len(f.area)
  BY ONLY <1>1, <1>7, <1>8
<1>12. ASSUME ~g.astray PROVE Taken(g, f, text, p)
  <2>1. g = [Became(f, text, p) EXCEPT !.prev = f.area]
    BY <1>3, <1>12
  <2> QED BY <1>1, <1>5, <1>6, <2>1, TakenIs
<1> QED BY <1>1, <1>5, <1>6, <1>9, <1>10, <1>11, <1>12 DEF TakenIn

\* A character of no width that was not seen before goes in as if typed.
LEMMA PollErrs ==
  ASSUME NEW f, Readable(f), ~f.forMenu, f.prev = <<>>,
         Len(f.area) > 0, f.area[1] = ZeroWidth, NEW g, g = Poll(f)
  PROVE  g.astray
<1>0. f \in FieldStates /\ f.area \in Seq(AreaKey)
  BY DEF Readable, FieldStates
<1> PICK none : none = <<>>
  OBVIOUS
<1>1. none \in Seq(AreaKey) /\ Len(none) = 0
  BY EmptySeq
<1> PICK same : same = Common(none, f.area)
  OBVIOUS
<1>2. same = 0
  <2>1. same \in 0..Len(none)
    BY <1>0, <1>1, CommonIs
  <2> QED BY <1>1, <2>1
<1> PICK new : new = SubSeq(f.area, same + 1, Len(f.area))
  OBVIOUS
<1>3. new = f.area
  BY <1>0, <1>2, SubSeqFull
<1>4. ZeroWidth \in ToSet(new)
  <2>1. 1 \in DOMAIN f.area
    BY <1>0
  <2> QED BY <1>3, <2>1 DEF ToSet
<1> PICK gone : gone = Len(none) - same
  OBVIOUS
<1> PICK put : put = ApplyTextInput(f, new, gone)
  OBVIOUS
<1> PICK out : out = [put EXCEPT !.astray = @ \/ WholeLine(f, new, gone)
                                              \/ ZeroWidth \in ToSet(new)]
  OBVIOUS
<1>5. DOMAIN put = DOMAIN f
  <2>1. \E text, p : put = [f EXCEPT !.text = text, !.from = p, !.to = p, !.forMenu = FALSE]
    BY ONLY put = ApplyTextInput(f, new, gone), Zenon DEF ApplyTextInput
  <2> QED BY ONLY <2>1, <1>0 DEF FieldStates
<1>6. out.astray /\ DOMAIN out = DOMAIN f
  BY ONLY <1>0, <1>4, <1>5, out = [put EXCEPT !.astray = @ \/ WholeLine(f, new, gone)
                                              \/ ZeroWidth \in ToSet(new)] DEF FieldStates
<1>7. \/ g = [out EXCEPT !.area = <<>>, !.prev = <<>>, !.marked = "none"]
      \/ g = [out EXCEPT !.prev = f.area]
  <2>1. ~(\/ f.menu = "pending" \/ ~f.focused \/ f.readOnly
          \/ HasSelection(f) /\ f.prev = <<>> /\ ~f.composing
          \/ f.area = f.prev /\ ~Selects(f))
    <3>1. f.area # f.prev
      BY <1>1
    <3> QED BY <3>1 DEF HasSelection, Readable
  <2>2. none = IF f.forMenu /\ f.prev = <<>> /\ f.area # <<>> /\ f.area[1] = ZeroWidth
               THEN <<ZeroWidth>> ELSE f.prev
    OBVIOUS
  <2> QED BY ONLY Zenon, g = Poll(f), same = Common(none, f.area), gone = Len(none) - same,
                  new = SubSeq(f.area, same + 1, Len(f.area)), put = ApplyTextInput(f, new, gone),
                  out = [put EXCEPT !.astray = @ \/ WholeLine(f, new, gone)
                                              \/ ZeroWidth \in ToSet(new)],
                  <2>1, <2>2 DEF Poll
<1> QED BY ONLY <1>0, <1>6, <1>7, ZenonT(60) DEF FieldStates

\* What is entered takes the place of what is selected, whatever is in the area.
LEMMA EnteredPuts ==
  ASSUME NEW f, Shape(f), f.focused, f.menu # "pending", ~f.readOnly, ~f.composing,
         ~Unnoticed(f), NEW keys \in Seq(Key), keys # <<>> \/ Selects(f),
         NEW e, EnteredAs(e, f, keys), NEW g, g = Poll(e),
         NEW text, text = Put(f.text, f.from, f.to, keys),
         NEW n, n = Len(keys), NEW p, p = f.from + n
  PROVE  g.astray \/ TakenIn(g, e, text, p, n)
<1>0. /\ f \in FieldStates /\ f.from <= f.to /\ f.to <= Len(f.text)
      /\ f.area \in Seq(AreaKey) /\ f.prev \in Seq(AreaKey) /\ f.from \in Nat /\ f.to \in Nat
      /\ f.marked \in {"none", "rest", "all"} /\ n \in Nat
  BY LenProperties DEF Shape, Loose, FieldStates
<1>1. /\ e \in FieldStates
      /\ e.text = f.text /\ e.from = f.from /\ e.to = f.to
      /\ e.focused = f.focused /\ e.menu = f.menu /\ e.forMenu = f.forMenu
      /\ e.readOnly = f.readOnly /\ e.prev = f.prev /\ e.marked = "none"
      /\ f.marked = "all" => e.area = keys
      /\ f.marked = "rest" => e.area = <<f.area[1]>> \o keys
      /\ f.marked = "none" => e.area = f.area \o keys
      /\ Selects(e) <=> Selects(f)
  BY DEF EnteredAs, Selects
<1>2. /\ keys \in Seq(AreaKey) /\ \A i \in 1..n : keys[i] # ZeroWidth
      /\ <<ZeroWidth>> \in Seq(AreaKey) /\ Len(<<ZeroWidth>>) = 1
      /\ <<ZeroWidth>>[1] = ZeroWidth /\ ZeroWidth # LineEnd
  <2>1. Key \subseteq AreaKey /\ ZeroWidth \in AreaKey
    BY DEF AreaKey, Written
  <2>2. keys \in Seq(AreaKey)
    BY <2>1, SeqMonotonic
  <2>3. ASSUME NEW i \in 1..n PROVE keys[i] # ZeroWidth
    <3>1. keys[i] \in Key
      BY ElementOfSeq
    <3> QED BY <3>1, FieldAssumption
  <2>4. ZeroWidth # LineEnd
    BY DEF ZeroWidth, LineEnd
  <2> QED BY <2>1, <2>2, <2>3, <2>4
<1>3. ASSUME NEW s, s = Seen(e), s \in Seq(AreaKey), \A i \in 1..Len(s) : s[i] # LineEnd,
             e.area = s \o keys, s = e.prev \/ e.prev = <<>>
      PROVE  g.astray \/ TakenIn(g, e, text, p, n)
  <2> PICK w : w = 0
    OBVIOUS
  <2>1. Len(s) \in Nat /\ Len(s) - w = Len(s) /\ e.from - w = f.from /\ w \in 0..Len(s)
    BY <1>0, <1>1, <1>3, LenProperties
  <2>2. e.area = SubSeq(s, 1, Len(s) - w) \o keys
    BY <1>3, <2>1, SubSeqFull
  <2>3. e.area # e.prev \/ Selects(e)
    <3> SUFFICES ASSUME ~Selects(f), e.area = e.prev PROVE FALSE
      BY <1>1
    <3>1. Len(e.area) = Len(s) + n /\ n # 0
      <4>1. keys # <<>>
        OBVIOUS
      <4>2. n # 0
        BY <4>1, EmptySeq
      <4> QED BY <1>2, <1>3, <4>2, ConcatProperties
    <3>2. Len(e.prev) <= Len(s)
      <4>1. CASE s = e.prev
        BY ONLY <2>1, <4>1
      <4>2. CASE e.prev = <<>>
        <5>1. Len(e.prev) = 0
          BY ONLY <4>2
        <5> QED BY ONLY <2>1, <5>1
      <4> QED BY <1>3, <4>1, <4>2
    <3>3. e.prev = e.area
      OBVIOUS
    <3>4. Len(e.area) <= Len(s)
      BY ONLY <3>2, <3>3
    <3> QED BY ONLY <3>1, <3>4, <2>1, <1>0
  <2>4. Readable(e)
    BY <1>0, <1>1, <2>3 DEF Readable
  <2>5. NewIn(e, s, w, keys)
    <3>1. w <= e.from /\ (Selects(e) => w = 0)
      BY <1>0, <1>1
    <3>2. \A i \in 1..w : s[Len(s) - w + i] = e.text[e.from - w + i]
      OBVIOUS
    <3> QED BY <1>3, <2>1, <2>2, <2>4, <3>1, <3>2 DEF NewIn
  <2>6. text = Put(e.text, e.from - w, e.to, keys) /\ p = e.from - w + n
    BY <1>1, <2>1
  <2> QED BY <2>5, <2>6, PollTakes
<1>4. AreaKnown(f)
  BY DEF Shape
<1>5. CASE f.marked = "all"
  <2>1. f.prev = <<>>
    <3>1. CASE Selects(f)
      BY <1>4, <3>1 DEF AreaKnown, WithSelection
    <3>2. CASE ~Selects(f)
      <4>1. ~AsSeen(f) /\ ~PastedOver(f) /\ ~MenuOpen(f)
        BY <1>5 DEF AsSeen, PastedOver, MenuOpen, Unnoticed
      <4> QED BY <1>4, <3>2, <4>1 DEF AreaKnown, LineCopied
    <3> QED BY <3>1, <3>2
  <2> PICK s : s = <<>>
    OBVIOUS
  <2>2. s \in Seq(AreaKey) /\ Len(s) = 0 /\ s \o keys = keys
    BY <1>2, EmptySeq, ConcatEmptySeq
  <2>3. s = Seen(e)
    <3>1. e.area # <<>> => e.area[1] # ZeroWidth
      <4> SUFFICES ASSUME keys # <<>> PROVE keys[1] # ZeroWidth
        BY <1>1, <1>5
      <4>1. n # 0
        BY EmptySeq
      <4>2. 1 \in 1..n
        BY <1>0, <4>1
      <4> QED BY <1>2, <4>2
    <3> QED BY <1>1, <2>1, <3>1 DEF Seen
  <2>4. e.area = s \o keys /\ s = e.prev /\ \A i \in 1..Len(s) : s[i] # LineEnd
    BY <1>1, <1>5, <2>1, <2>2
  <2> QED BY ONLY <1>3, <2>2, <2>3, <2>4
<1>6. CASE f.marked = "rest" /\ ~PastedOver(f)
  <2> PICK s : s = <<ZeroWidth>>
    OBVIOUS
  <2>1. /\ f.area[1] = ZeroWidth
        /\ f.prev = s \/ (f.prev = <<>> /\ f.forMenu)
    <3>1. CASE Selects(f)
      BY <1>4, <1>6, <3>1 DEF AreaKnown, WithSelection
    <3>2. CASE ~Selects(f)
      <4>1. MenuOpen(f)
        BY <1>4, <1>6, <3>2 DEF AreaKnown, AsSeen, LineCopied
      <4> QED BY <1>2, <4>1 DEF MenuOpen
    <3> QED BY <3>1, <3>2
  <2>2. e.area = s \o keys
    BY <1>1, <1>6, <2>1
  <2>3. e.area # <<>> /\ e.area[1] = ZeroWidth
    <3>1. e.area[1] = s[1] /\ Len(e.area) = 1 + n
      BY <1>0, <1>2, <2>2, ConcatProperties
    <3>2. Len(<<>>) = 0
      OBVIOUS
    <3> QED BY <1>0, <1>2, <3>1, <3>2
  <2>4. s = Seen(e)
    <3>1. CASE f.prev = s
      <4>1. f.prev # <<>>
        BY <3>1
      <4> QED BY <1>1, <3>1, <4>1 DEF Seen
    <3>2. CASE f.prev = <<>> /\ f.forMenu
      BY <1>1, <2>3, <3>2 DEF Seen
    <3> QED BY <2>1, <3>1, <3>2
  <2>5. \A i \in 1..Len(s) : s[i] # LineEnd
    BY <1>2
  <2> QED BY <1>1, <1>2, <1>3, <2>1, <2>2, <2>4, <2>5
<1>7. CASE PastedOver(f) /\ f.marked = "rest" /\ ~Selects(f)
  <2> PICK one : one = <<ZeroWidth>>
    OBVIOUS
  <2>1. e.prev = <<>> /\ ~e.forMenu /\ e.area = one \o keys
    BY <1>1, <1>7 DEF PastedOver
  <2>2. e.area[1] = one[1] /\ Len(e.area) = 1 + n
    BY <1>0, <1>2, <2>1, ConcatProperties
  <2>3. e.area[1] = ZeroWidth /\ Len(e.area) > 0 /\ e.area # e.prev
    <3>1. Len(<<>>) = 0
      OBVIOUS
    <3> QED BY <1>0, <1>2, <2>1, <2>2, <3>1
  <2>4. Readable(e)
    BY <1>0, <1>1, <2>3 DEF Readable
  <2> QED BY <2>1, <2>3, <2>4, PollErrs
<1>8. CASE f.marked = "none"
  <2>1. AsSeen(f)
    <3>1. ~Selects(f)
      BY <1>4, <1>8 DEF AreaKnown, WithSelection, HasSelection
    <3> QED BY <1>4, <1>8, <3>1 DEF AreaKnown, MenuOpen, LineCopied, PastedOver
  <2> PICK s : s = f.prev
    OBVIOUS
  <2>2. e.area = s \o keys /\ \A i \in 1..Len(s) : s[i] # LineEnd
    BY <1>1, <1>8, <2>1 DEF AsSeen
  <2>3. s = Seen(e)
    <3> SUFFICES ASSUME s = <<>>, e.area # <<>> PROVE e.area[1] # ZeroWidth
      BY <1>1 DEF Seen
    <3>1. e.area = keys
      BY <1>2, <2>2, ConcatEmptySeq
    <3>2. n # 0
      BY <3>1, EmptySeq
    <3>3. 1 \in 1..n
      BY <1>0, <3>2
    <3> QED BY <1>2, <3>1, <3>3
  <2> QED BY <1>0, <1>1, <1>3, <2>2, <2>3
<1>9. PastedOver(f) => ~Selects(f) \/ ~AreaKnown(f)
  BY DEF PastedOver, AreaKnown, WithSelection
<1> QED BY <1>0, <1>4, <1>5, <1>6, <1>7, <1>8, <1>9

\* What was taken is what is meant.
NotedAs(h, g) ==
  /\ h \in FieldStates
  /\ h.text = g.text /\ h.from = g.from /\ h.to = g.to /\ h.forMenu = g.forMenu
  /\ h.area = g.area /\ h.marked = g.marked /\ h.prev = g.prev
  /\ h.focused = g.focused /\ h.menu = g.menu

\* After that, and what the step adds to it, the area is known.
LEMMA TakenShapes ==
  ASSUME NEW g, NEW e, NEW text, NEW p, NEW n, TakenIn(g, e, text, p, n),
         e.focused, e.menu # "pending", e.marked = "none",
         NEW h, NotedAs(h, g), h.meant = text,
         h.composing => h.composed = n, ~h.composing => h.composed = 0
  PROVE  Shape(h)
<1>1. /\ h \in FieldStates /\ h.text = text /\ h.from = p /\ h.to = p /\ ~h.forMenu
      /\ h.area = e.area /\ h.marked = "none" /\ h.prev = e.area
      /\ h.focused /\ h.menu # "pending"
  BY DEF NotedAs, TakenIn, Taken
<1>2. /\ p \in Nat /\ p <= Len(text)
      /\ \A i \in 1..Len(e.area) : e.area[i] # LineEnd
      /\ n \in Nat /\ n <= p /\ n <= Len(e.area)
      /\ \A i \in 1..n : e.area[Len(e.area) - n + i] = text[p - n + i]
  BY DEF TakenIn
<1>3. Loose(h)
  BY <1>1, <1>2 DEF Loose
<1>4. AsSeen(h) /\ ~Selects(h)
  <2>1. ~Selects(h)
    BY <1>1 DEF Selects
  <2>2. h.composed = n \/ h.composed = 0
    OBVIOUS
  <2>3. h.area = e.area /\ h.text = text /\ h.from = p
    BY <1>1
  <2>4. h.composed <= Len(h.area) /\ h.composed <= h.from
    BY ONLY <1>2, <2>2, <2>3
  <2>5. \A i \in 1..h.composed :
          h.area[Len(h.area) - h.composed + i] = h.text[h.from - h.composed + i]
    <3>1. CASE h.composed = n
      BY ONLY <1>2, <2>3, <3>1
    <3>2. CASE h.composed = 0
      BY ONLY <3>2
    <3> QED BY <2>2, <3>1, <3>2
  <2>6. \A i \in 1..Len(h.area) : h.area[i] # LineEnd
    BY ONLY <1>2, <2>3
  <2> QED BY <1>1, <2>1, <2>4, <2>5, <2>6 DEF AsSeen
<1> QED BY <1>1, <1>3, <1>4 DEF Shape, AreaKnown

\* A key, or what is composed first.
LEMMA PressKeyKeeps ==
  ASSUME Shape(field), ~field.astray, NEW key \in Key, PressKey(key)
  PROVE  Kept(field')
<1> PICK f : f = field
  OBVIOUS
<1> PICK h : h = field'
  OBVIOUS
<1> PICK keys : keys = <<key>>
  OBVIOUS
<1> PICK e0 : e0 = Entered(f, keys)
  OBVIOUS
<1> PICK e : e = FastPoll(e0)
  OBVIOUS
<1> PICK g : g = Poll(e)
  OBVIOUS
<1> PICK text : text = Put(f.text, f.from, f.to, keys)
  OBVIOUS
<1>0. /\ Shape(f) /\ ~f.astray /\ f.focused /\ f.menu # "pending" /\ ~f.composing
      /\ h = [g EXCEPT !.meant = IF f.readOnly THEN @ ELSE text,
                      !.astray = @ \/ Unnoticed(f)]
  BY DEF PressKey, Meant
<1>1. /\ Loose(f) /\ f \in FieldStates /\ f.composed = 0
      /\ (f.marked = "rest" => f.area # <<>>) /\ f.text = f.meant
  BY <1>0 DEF Shape, Loose
<1>2. keys \in Seq(Key) /\ Len(keys) = 1 /\ keys # <<>>
  OBVIOUS
<1>3. EnteredAs(e0, f, keys) /\ e0.composing = f.composing
  BY <1>1, <1>2, EnteredIs
<1>4. EnteredAs(e, f, keys) /\ e.composing = f.composing /\ e.timer = "fast"
  <2>1. e0 \in FieldStates
    BY <1>3 DEF EnteredAs
  <2>2. e = [e0 EXCEPT !.timer = "fast"]
    BY DEF FastPoll
  <2>3. /\ e \in FieldStates /\ e.timer = "fast"
        /\ e.text = e0.text /\ e.from = e0.from /\ e.to = e0.to
        /\ e.focused = e0.focused /\ e.composed = e0.composed /\ e.composing = e0.composing
        /\ e.menu = e0.menu /\ e.forMenu = e0.forMenu /\ e.copied = e0.copied
        /\ e.readOnly = e0.readOnly /\ e.meant = e0.meant /\ e.astray = e0.astray
        /\ e.prev = e0.prev /\ e.marked = e0.marked /\ e.area = e0.area
    BY ONLY <2>1, <2>2 DEF FieldStates
  <2> QED BY ONLY <1>3, <2>3 DEF EnteredAs
<1>5. e \in FieldStates /\ e.marked = "none" /\ e.focused /\ e.menu # "pending"
      /\ e.readOnly = f.readOnly /\ e.composed = 0 /\ ~e.composing /\ e.text = f.text
      /\ e.from = f.from /\ e.to = f.to /\ e.meant = f.meant
  BY <1>0, <1>1, <1>4 DEF EnteredAs
<1>6. PollKeeps(g, e)
  BY <1>5, PollIs
<1>7. h.focused = e.focused /\ h.timer = "fast"
  BY ONLY <1>0, <1>4, <1>5, <1>6 DEF PollKeeps, FieldStates
<1>8. CASE g.astray \/ Unnoticed(f)
  <2>1. h.astray
    BY ONLY <1>0, <1>5, <1>6, <1>8 DEF PollKeeps, FieldStates
  <2> QED BY <1>7, <2>1 DEF Kept
<1>9. CASE f.readOnly /\ ~Unnoticed(f)
  <2>1. g = e
    BY <1>5, <1>6, <1>9 DEF PollKeeps
  <2>2. h = e
    BY ONLY <1>0, <1>5, <1>9, <2>1, ZenonT(60) DEF FieldStates
  <2>3. Shape(h)
    BY ONLY <1>1, <1>5, <1>9, <2>2 DEF Shape, Loose
  <2> QED BY <1>7, <2>3 DEF Kept
<1>10. CASE ~f.readOnly /\ ~g.astray /\ ~Unnoticed(f)
  <2>1. TakenIn(g, e, text, f.from + 1, 1)
    BY <1>0, <1>2, <1>4, <1>10, EnteredPuts
  <2>2. g \in FieldStates /\ text \in Seq(Written) /\ g.composing = e.composing
        /\ g.composed = e.composed
    BY <2>1 DEF TakenIn, Taken
  <2>3. NotedAs(h, g) /\ h.meant = text /\ h.composing = e.composing /\ h.composed = e.composed
    BY ONLY <1>0, <1>10, <2>2 DEF NotedAs, FieldStates
  <2>4. Shape(h)
    BY <1>5, <2>1, <2>3, TakenShapes
  <2> QED BY <1>7, <2>4 DEF Kept
<1> QED BY <1>8, <1>9, <1>10

\* What is there already, put in once more.
Stands(E, word, text, from, to) ==
  /\ text \in Seq(E) /\ word \in Seq(E)
  /\ from \in 0..Len(text) /\ to \in from..Len(text) /\ to = from + Len(word)
  /\ \A i \in 1..Len(word) : word[i] = text[from + i]

LEMMA PutSame ==
  ASSUME NEW E, NEW text, NEW word, NEW from, NEW to, Stands(E, word, text, from, to),
         NEW out, out = Put(text, from, to, word)
  PROVE  out = text
<1> USE DEF Stands
<1>0. Len(text) \in Nat /\ Len(word) \in Nat /\ from \in Nat /\ to \in Nat
  BY LenProperties
<1>1. out \in Seq(E) /\ IsPut(out, text, from, to, word)
  BY PutIs
<1>2. /\ Len(out) = from + Len(word) + Len(text) - to
      /\ \A i \in 1..from : out[i] = text[i]
      /\ \A i \in 1..Len(word) : out[from + i] = word[i]
      /\ \A i \in 1..Len(text) - to : out[from + Len(word) + i] = text[to + i]
  BY ONLY <1>1 DEF IsPut
<1>3. Len(out) = Len(text)
  BY ONLY <1>0, <1>2, to = from + Len(word)
<1>4. ASSUME NEW k \in 1..Len(out) PROVE out[k] = text[k]
  <2>1. CASE k <= from
    <3>1. k \in 1..from
      BY ONLY <1>0, <1>3, <2>1, k \in 1..Len(out)
    <3> QED BY ONLY <3>1, <1>2
  <2>2. CASE from < k /\ k <= to
    <3> PICK i : i = k - from
      OBVIOUS
    <3>1. i \in 1..Len(word) /\ k = from + i
      BY ONLY <1>0, <1>3, <2>2, k \in 1..Len(out), i = k - from, to = from + Len(word)
    <3> QED BY ONLY <3>1, <1>2, \A j \in 1..Len(word) : word[j] = text[from + j]
  <2>3. CASE to < k
    <3> PICK i : i = k - to
      OBVIOUS
    <3>1. i \in 1..Len(text) - to /\ k = to + i /\ k = from + Len(word) + i
      BY ONLY <1>0, <1>3, <2>3, k \in 1..Len(out), i = k - to, to = from + Len(word)
    <3> QED BY ONLY <3>1, <1>2
  <2> QED BY ONLY <1>0, <1>3, <2>1, <2>2, <2>3, k \in 1..Len(out)
<1> QED BY ONLY <1>1, <1>3, <1>4, text \in Seq(E), SeqEqual

\* What is composed, put in for what was composed before.
LEMMA ComposeKeeps ==
  ASSUME Shape(field), ~field.astray, field.focused => field.timer # "off",
         NEW keys \in Seq(Key), Compose(keys)
  PROVE  Kept(field')
<1> PICK f : f = field
  OBVIOUS
<1> PICK h : h = field'
  OBVIOUS
<1> PICK n : n = Len(keys)
  OBVIOUS
<1> PICK w : w = f.composed
  OBVIOUS
<1> PICK kept : kept = Len(f.area) - w
  OBVIOUS
<1> PICK f0 : f0 = [f EXCEPT !.composing = TRUE]
  OBVIOUS
<1> PICK e : e = IF f.composing THEN [f EXCEPT !.area = SubSeq(@, 1, kept) \o keys]
                 ELSE Entered(f0, keys)
  OBVIOUS
<1> PICK g : g = Poll(e)
  OBVIOUS
<1> PICK text : text = Put(f.text, f.from - w, f.to, keys)
  OBVIOUS
<1>0. /\ Shape(f) /\ ~f.astray /\ (f.focused => f.timer # "off")
      /\ f.focused /\ f.menu # "pending" /\ ~Unnoticed(f) /\ w + n > 0
      /\ h = [g EXCEPT !.composed = n, !.meant = IF f.readOnly THEN @ ELSE text]
  BY DEF Compose
<1>1. /\ f \in FieldStates /\ f.from <= f.to /\ f.to <= Len(f.text) /\ f.text = f.meant
      /\ (f.marked = "rest" => f.area # <<>> /\ ~f.composing)
      /\ (~f.composing => w = 0)
  BY <1>0 DEF Shape, Loose
<1>2. /\ f.text \in Seq(Written) /\ f.area \in Seq(AreaKey) /\ f.prev \in Seq(AreaKey)
      /\ f.from \in Nat /\ f.to \in Nat /\ w \in Nat /\ f.composing \in BOOLEAN
  BY <1>1 DEF FieldStates
<1>3. keys \in Seq(AreaKey) /\ n \in Nat /\ Len(f.text) \in Nat /\ Len(f.area) \in Nat
  <2>1. Key \subseteq AreaKey
    BY DEF AreaKey, Written
  <2> QED BY <1>2, <2>1, SeqMonotonic, LenProperties
<1> PICK head : head = SubSeq(f.area, 1, kept)
  OBVIOUS
<1> PICK area : area = head \o keys
  OBVIOUS
<1>4. area \in Seq(AreaKey)
  <2>1. kept \in Int /\ \A i \in 1..kept : f.area[i] \in AreaKey
    BY <1>2, <1>3
  <2> PICK was : was = f.area
    OBVIOUS
  <2>3. kept \in Int /\ 1 \in Int /\ (\A i \in 1..kept : was[i] \in AreaKey)
    BY <2>1
  <2>4. SubSeq(was, 1, kept) \in Seq(AreaKey)
    BY ONLY <2>3, SubSeqProperties
  <2>2. head \in Seq(AreaKey)
    BY <2>4
  <2> QED BY <1>3, <2>2, ConcatProperties
<1>7. ASSUME h.astray \/ Shape(h), h.focused => h.timer # "off" PROVE Kept(field')
  <2>1. Kept(h)
    BY ONLY <1>7 DEF Kept
  <2> QED BY ONLY <2>1, h = field'
<1>5. CASE f.composing
  <2>1. e = [f EXCEPT !.area = area]
    BY <1>5
  <2>2. /\ e \in FieldStates /\ e.area = area
        /\ e.text = f.text /\ e.from = f.from /\ e.to = f.to
        /\ e.focused = f.focused /\ e.composed = f.composed /\ e.composing = f.composing
        /\ e.menu = f.menu /\ e.forMenu = f.forMenu /\ e.copied = f.copied
        /\ e.readOnly = f.readOnly /\ e.meant = f.meant /\ e.astray = f.astray
        /\ e.prev = f.prev /\ e.marked = f.marked /\ e.timer = f.timer
    BY ONLY <1>1, <1>4, <2>1 DEF FieldStates
  <2>3. PollKeeps(g, e)
    BY <2>2, PollIs
  <2>4. h.focused = e.focused /\ h.timer = e.timer
    BY ONLY <1>0, <2>2, <2>3 DEF PollKeeps, FieldStates
  <2>7. h.focused => h.timer # "off"
    BY ONLY <1>0, <2>2, <2>4
  <2>5. CASE f.readOnly
    <3>1. g = e
      BY <2>2, <2>3, <2>5 DEF PollKeeps
    <3>2. /\ h \in FieldStates /\ h.text = f.text /\ h.from = f.from /\ h.to = f.to
          /\ h.menu = f.menu /\ h.composing = f.composing /\ h.focused = f.focused
          /\ h.readOnly = f.readOnly /\ h.marked = f.marked /\ h.meant = f.meant
      BY ONLY <1>0, <1>3, <2>2, <2>5, <3>1 DEF FieldStates
    <3>3. Shape(h)
      BY <1>0, <1>1, <1>5, <2>5, <3>2 DEF Shape, Loose
    <3> QED BY ONLY <1>7, <2>7, <3>3
  <2>6. CASE ~f.readOnly
    <3>1. AsSeen(f) /\ ~Selects(f) /\ ~f.forMenu
      BY <1>0, <1>5, <2>6
         DEF Shape, AreaKnown, WithSelection, MenuOpen, LineCopied, PastedOver
    <3> PICK s : s = f.prev
      OBVIOUS
    <3>2. /\ s = f.area /\ s \in Seq(AreaKey) /\ \A i \in 1..Len(s) : s[i] # LineEnd
          /\ w \in 0..Len(s) /\ w <= f.from /\ f.marked = "none"
          /\ \A i \in 1..w : s[Len(s) - w + i] = f.text[f.from - w + i]
      BY SMTT(30), <1>2, <1>3, <3>1 DEF AsSeen
    <3>3. s = Seen(e) /\ ~Selects(e) /\ f.from = f.to
      BY SMTT(30), <2>2, <3>1 DEF Seen, Selects
    <3>4. e.area = SubSeq(s, 1, Len(s) - w) \o keys
      BY Zenon, <2>2, <3>2
    <3>5. CASE e.area # e.prev
      <4>1. Readable(e)
        BY <1>0, <1>1, <2>2, <2>6, <3>2, <3>5, ZenonT(60) DEF Readable
      <4>2. NewIn(e, s, w, keys)
        <5>1. \A i \in 1..w : s[Len(s) - w + i] = e.text[e.from - w + i]
          BY SMTT(30), <2>2, <3>2
        <5>2. w <= e.from
          BY <2>2, <3>2
        <5> QED BY ONLY <3>2, <3>3, <3>4, <4>1, <5>1, <5>2, keys \in Seq(Key) DEF NewIn
      <4> PICK p : p = f.from - w + n
        OBVIOUS
      <4>3. text = Put(e.text, e.from - w, e.to, keys) /\ p = e.from - w + n
        BY <2>2
      <4>4. g.astray \/ TakenIn(g, e, text, p, n)
        BY <4>2, <4>3, PollTakes
      <4>5. CASE g.astray
        <5>1. h.astray
          BY ONLY <1>0, <2>2, <2>3, <4>5 DEF PollKeeps, FieldStates
        <5> QED BY ONLY <1>7, <2>7, <5>1
      <4>6. CASE TakenIn(g, e, text, p, n)
        <5>1. g \in FieldStates /\ text \in Seq(Written) /\ g.composing = e.composing
          BY <4>6 DEF TakenIn, Taken
        <5>2. NotedAs(h, g) /\ h.meant = text /\ h.composing = e.composing /\ h.composed = n
          BY ONLY <1>0, <1>3, <2>6, <5>1 DEF NotedAs, FieldStates
        <5>4. /\ e.focused /\ e.menu # "pending" /\ e.marked = "none"
              /\ h.composing => h.composed = n
              /\ ~h.composing => h.composed = 0
          BY <1>0, <1>5, <2>2, <3>2, <5>2
        <5>3. Shape(h)
          BY ONLY <4>6, <5>2, <5>4, TakenShapes
        <5> QED BY ONLY <1>7, <2>7, <5>3
      <4> QED BY <4>4, <4>5, <4>6
    <3>6. CASE e.area = e.prev
      <4>1. g = e
        BY <3>3, <3>6, Zenon DEF Poll
      <4>2. HoldsWord(area, s, w, keys, Common(s, area), Common(s, area) - (Len(s) - w))
        <5>1. area = SubSeq(s, 1, Len(s) - w) \o keys
          BY <3>2
        <5> QED BY ONLY <1>3, <3>2, <5>1, NewIs
      <4>3. /\ Len(area) = Len(s) - w + n /\ Len(s) \in Nat
            /\ \A i \in 1..n : area[Len(s) - w + i] = keys[i]
        BY <3>2, <4>2, LenProperties DEF HoldsWord
      <4>4. area = s /\ n = w
        <5>1. area = s
          BY <2>2, <3>6
        <5>2. Len(s) = Len(s) - w + n
          BY ONLY <4>3, <5>1
        <5> QED BY ONLY <1>2, <1>3, <4>3, <5>1, <5>2
      <4> PICK from : from = f.from - w
        OBVIOUS
      <4>5. \A i \in 1..n : keys[i] = f.text[from + i]
        BY ONLY <3>2, <4>3, <4>4, from = f.from - w
      <4>6. from \in 0..Len(f.text) /\ f.to \in from..Len(f.text) /\ f.to = from + n
        <5>1. w <= f.from /\ f.from = f.to /\ f.to <= Len(f.text)
          BY ZenonT(30), <1>1, <3>2, <3>3
        <5> QED BY ONLY SMTT(30), <1>2, <1>3, <4>4, <5>1, from = f.from - w
      <4>7. text = f.text
        <5>1. keys \in Seq(Written) /\ text = Put(f.text, from, f.to, keys)
          <6>1. Key \subseteq Written
            BY DEF Written
          <6> QED BY <6>1, SeqMonotonic
        <5> PICK was : was = f.text
          OBVIOUS
        <5> PICK to : to = f.to
          OBVIOUS
        <5>2. Stands(Written, keys, was, from, to) /\ text = Put(was, from, to, keys)
          BY ONLY <1>2, <4>5, <4>6, <5>1, was = f.text, to = f.to, n = Len(keys) DEF Stands
        <5>3. text = was
          BY ONLY <5>2, PutSame
        <5> QED BY <5>3
      <4>8. h = e
        <5>1. e.composed = n /\ e.meant = text /\ DOMAIN e = DOMAIN f
          <6>1. e.composed = n /\ e.meant = text
            BY <1>1, <2>2, <4>4, <4>7
          <6>2. DOMAIN e = DOMAIN f
            BY ONLY <1>1, <2>2 DEF FieldStates
          <6> QED BY <6>1, <6>2
        <5> QED BY ONLY <1>0, <2>2, <2>6, <4>1, <5>1 DEF FieldStates
      <4>9. e = f
        <5>1. f.area = area
          BY <3>2, <4>4
        <5> QED BY ONLY <1>1, <2>1, <5>1 DEF FieldStates
      <4> QED BY <1>0, <4>8, <4>9, Zenon DEF Kept
    <3> QED BY <3>5, <3>6
  <2> QED BY <2>5, <2>6
<1>6. CASE ~f.composing
  <2>1. /\ f0 \in FieldStates /\ f0.area = f.area
        /\ f0.text = f.text /\ f0.from = f.from /\ f0.to = f.to
        /\ f0.focused = f.focused /\ f0.composed = f.composed /\ f0.composing
        /\ f0.menu = f.menu /\ f0.forMenu = f.forMenu /\ f0.copied = f.copied
        /\ f0.readOnly = f.readOnly /\ f0.meant = f.meant /\ f0.astray = f.astray
        /\ f0.prev = f.prev /\ f0.marked = f.marked /\ f0.timer = f.timer
    BY ONLY <1>1, f0 = [f EXCEPT !.composing = TRUE] DEF FieldStates
  <2>2. EnteredAs(e, f0, keys) /\ e.timer = f0.timer /\ e.composing = f0.composing
    <3>1. e = Entered(f0, keys) /\ (f0.marked = "rest" => f0.area # <<>>)
      BY <1>1, <1>6, <2>1
    <3> QED BY <2>1, <3>1, EnteredIs
  <2>3. EnteredAs(e, f, keys)
    BY ONLY <2>1, <2>2 DEF EnteredAs
  <2>4. /\ e \in FieldStates /\ e.marked = "none" /\ e.focused = f.focused /\ e.menu = f.menu
        /\ e.readOnly = f.readOnly /\ e.text = f.text /\ e.from = f.from /\ e.to = f.to
        /\ e.composing /\ e.timer = f.timer /\ e.meant = f.meant
    BY <2>1, <2>2, <2>3, Zenon DEF EnteredAs
  <2>5. PollKeeps(g, e)
    BY <2>4, PollIs
  <2>6. h.focused = e.focused /\ h.timer = e.timer
    BY ONLY <1>0, <2>4, <2>5 DEF PollKeeps, FieldStates
  <2>7. CASE f.readOnly
    <3>1. g = e
      BY <2>4, <2>5, <2>7 DEF PollKeeps
    <3>2. /\ h \in FieldStates /\ h.text = f.text /\ h.from = f.from /\ h.to = f.to
          /\ h.menu = f.menu /\ h.composing /\ h.focused = f.focused
          /\ h.readOnly = f.readOnly /\ h.marked = "none" /\ h.meant = f.meant
      BY ONLY <1>0, <1>3, <2>4, <2>7, <3>1 DEF FieldStates
    <3>3. Shape(h)
      BY <1>0, <1>1, <2>7, <3>2 DEF Shape, Loose
    <3> QED BY <1>0, <2>4, <2>6, <3>3 DEF Kept
  <2>8. CASE ~f.readOnly
    <3> PICK p : p = f.from + n
      OBVIOUS
    <3>1. w = 0 /\ f.from - w = f.from
      BY <1>1, <1>2, <1>6
    <3>2. text = Put(f.text, f.from, f.to, keys) /\ keys # <<>>
      <4>1. keys # <<>>
        BY <1>0, <1>3, <3>1
      <4> QED BY <3>1, <4>1
    <3>3. g.astray \/ TakenIn(g, e, text, p, n)
      BY <1>0, <1>6, <2>3, <2>8, <3>2, EnteredPuts
    <3>4. CASE g.astray
      <4>1. h.astray
        BY ONLY <1>0, <2>4, <2>5, <3>4 DEF PollKeeps, FieldStates
      <4> QED BY <1>0, <2>4, <2>6, <4>1 DEF Kept
    <3>5. CASE TakenIn(g, e, text, p, n)
      <4>1. g \in FieldStates /\ text \in Seq(Written) /\ g.composing = e.composing
        BY <3>5 DEF TakenIn, Taken
      <4>2. NotedAs(h, g) /\ h.meant = text /\ h.composing = e.composing /\ h.composed = n
        BY ONLY <1>0, <1>3, <2>8, <4>1 DEF NotedAs, FieldStates
      <4>4. /\ e.focused /\ e.menu # "pending" /\ e.marked = "none"
            /\ h.composing => h.composed = n
            /\ ~h.composing => h.composed = 0
        BY <1>0, <2>4, <4>2
      <4>3. Shape(h)
        BY ONLY <3>5, <4>2, <4>4, TakenShapes
      <4> QED BY SMTT(30), <1>0, <2>4, <2>6, <4>3 DEF Kept
    <3> QED BY <3>3, <3>4, <3>5
  <2> QED BY <2>7, <2>8
<1> QED BY <1>2, <1>5, <1>6

\* The end of what is composed: there is nothing left to read.
LEMMA StopComposingKeeps ==
  ASSUME Shape(field), field.focused => field.timer # "off", StopComposing
  PROVE  Kept(field')
<1> PICK f : f = field
  OBVIOUS
<1> PICK h : h = field'
  OBVIOUS
<1>1. Shape(f) /\ (f.focused => f.timer # "off") /\ f.composing /\ f \in FieldStates
  BY DEF StopComposing, Shape, Loose
<1>2. h = [f EXCEPT !.composing = FALSE, !.composed = 0]
  <2>1. Poll(f) = f
    BY <1>1, PollRests
  <2> QED BY <2>1 DEF StopComposing
<1>3. /\ h \in FieldStates /\ h.area = f.area
      /\ h.text = f.text /\ h.from = f.from /\ h.to = f.to
      /\ h.focused = f.focused /\ h.composed = 0 /\ ~h.composing
      /\ h.menu = f.menu /\ h.forMenu = f.forMenu
      /\ h.readOnly = f.readOnly /\ h.meant = f.meant
      /\ h.prev = f.prev /\ h.marked = f.marked /\ h.timer = f.timer
  BY ONLY <1>1, <1>2 DEF FieldStates
<1>4. Loose(h)
  BY <1>1, <1>3 DEF Shape, Loose
<1>5. ASSUME ~f.readOnly PROVE AreaKnown(h)
  <2>1. AsSeen(f) /\ ~Selects(f)
    BY <1>1, <1>5 DEF Shape, Loose, AreaKnown, WithSelection, MenuOpen, LineCopied, PastedOver
  <2>2. ~Selects(h) /\ h.from \in Nat
    BY <1>3, <2>1 DEF Selects, FieldStates
  <2>3. AsSeen(h)
    <3>1. Len(h.area) \in Nat
      BY <1>3, LenProperties DEF FieldStates
    <3> QED BY <1>3, <2>1, <2>2, <3>1 DEF AsSeen
  <2> QED BY <2>2, <2>3 DEF AreaKnown
<1> QED BY <1>1, <1>3, <1>4, <1>5 DEF Shape, Kept

\* A text pasted goes in by itself; the area is not read.
LEMMA PasteKeeps ==
  ASSUME Shape(field), field.focused => field.timer # "off",
         NEW ins \in Seq(Written), Paste(ins)
  PROVE  Kept(field')
<1> PICK f : f = field
  OBVIOUS
<1> PICK h : h = field'
  OBVIOUS
<1> PICK g : g = ApplyTextInput(f, ins, 0)
  OBVIOUS
<1>1. /\ Shape(f) /\ (f.focused => f.timer # "off") /\ ~f.composing /\ f.focused
      /\ f \in FieldStates /\ f.from <= f.to /\ f.to <= Len(f.text)
      /\ h = IF f.readOnly THEN f ELSE [g EXCEPT !.meant = g.text]
  BY DEF Paste, Shape, Loose
<1>2. CASE f.readOnly
  BY <1>1, <1>2 DEF Kept
<1>3. CASE ~f.readOnly
  <2>1. /\ g \in FieldStates /\ g.from = g.to /\ g.to <= Len(g.text)
        /\ g = Became(f, g.text, g.from)
    BY <1>1, ApplyTyped
  <2>2. g.text \in Seq(Written) /\ g.from \in Nat
    BY <2>1 DEF FieldStates
  <2>3. Turned(g, f, g.text, g.from)
    BY <1>1, <2>1, <2>2, BecameIs
  <2>4. /\ h \in FieldStates /\ h.area = g.area
        /\ h.text = g.text /\ h.from = g.from /\ h.to = g.to
        /\ h.focused = g.focused /\ h.composed = g.composed /\ h.composing = g.composing
        /\ h.menu = g.menu /\ h.forMenu = g.forMenu
        /\ h.readOnly = g.readOnly /\ h.meant = g.text
        /\ h.prev = g.prev /\ h.marked = g.marked /\ h.timer = g.timer
    <3>1. h = [g EXCEPT !.meant = g.text]
      BY <1>1, <1>3
    <3> QED BY ONLY <2>1, <2>2, <3>1 DEF FieldStates
  <2>5. /\ h \in FieldStates /\ h.area = f.area /\ h.text = h.meant
        /\ h.from = h.to /\ h.to <= Len(h.text)
        /\ h.focused = f.focused /\ h.composed = f.composed /\ h.composing = f.composing
        /\ h.menu = f.menu /\ ~h.forMenu /\ h.readOnly = f.readOnly
        /\ h.prev = f.prev /\ h.marked = f.marked /\ h.timer = f.timer
    BY ONLY <2>1, <2>3, <2>4 DEF Turned
  <2>6. h.from \in Nat /\ ~Selects(h)
    BY <2>5 DEF FieldStates, Selects
  <2>7. Loose(h)
    BY <1>1, <2>5, <2>6 DEF Shape, Loose
  <2>8. ASSUME h.menu # "pending"
        PROVE  AsSeen(h) \/ MenuOpen(h) \/ LineCopied(h) \/ PastedOver(h)
    <3>1. IF Selects(f) THEN WithSelection(f)
          ELSE AsSeen(f) \/ MenuOpen(f) \/ LineCopied(f) \/ PastedOver(f)
      BY <1>1, <1>3, <2>5, <2>8 DEF Shape, AreaKnown
    <3>2. CASE Selects(f)
      <4>1. WithSelection(f)
        BY <3>1, <3>2
      <4>2. HasSelection(f)
        BY <1>1, <4>1 DEF WithSelection
      <4> QED BY <1>1, <2>5, <4>1, <4>2 DEF WithSelection, HasSelection, LineCopied, PastedOver
    <3>3. CASE AsSeen(f)
      <4>1. f.composed = 0 /\ Len(h.area) \in Nat
        BY <1>1, <2>5, LenProperties DEF Shape, Loose, FieldStates
      <4> QED BY <2>5, <2>6, <3>3, <4>1 DEF AsSeen
    <3>4. CASE MenuOpen(f) \/ LineCopied(f) \/ PastedOver(f)
      BY <2>5, <3>4 DEF MenuOpen, LineCopied, PastedOver
    <3> QED BY <3>1, <3>2, <3>3, <3>4
  <2>9. AreaKnown(h)
    BY <2>6, <2>8 DEF AreaKnown
  <2> QED BY <1>1, <2>5, <2>7, <2>9 DEF Shape, Kept
<1> QED BY <1>2, <1>3

\* A line copied is left in the area, and is not read.
LEMMA CopyTextKeeps ==
  ASSUME Shape(field), field.focused => field.timer # "off", CopyText
  PROVE  Kept(field')
<1> PICK f : f = field
  OBVIOUS
<1> PICK h : h = field'
  OBVIOUS
<1> PICK part : part = SelectedText(f)
  OBVIOUS
<1> PICK begin : begin = BeginOf(f.text, f.from)
  OBVIOUS
<1> PICK end : end = EndOf(f.text, f.from)
  OBVIOUS
<1> PICK to : to = IF end < Len(f.text) THEN end + 1 ELSE end
  OBVIOUS
<1> PICK line : line = SubSeq(f.text, begin + 1, to)
  OBVIOUS
<1>1. /\ Shape(f) /\ (f.focused => f.timer # "off") /\ ~f.composing /\ f.focused
      /\ f.menu # "pending"
      /\ f \in FieldStates /\ f.from <= f.to /\ f.to <= Len(f.text)
      /\ h = IF Selects(f)
             THEN [f EXCEPT !.copied = [lineWise |-> FALSE, text |-> part]]
             ELSE [f EXCEPT !.copied = [lineWise |-> TRUE, text |-> line],
                            !.prev = <<>>, !.area = line, !.marked = "all"]
  BY DEF CopyText, CopyLine, Shape, Loose
<1>2. f.text \in Seq(Written) /\ f.from \in Nat /\ f.to \in Nat /\ Len(f.text) \in Nat
  BY <1>1, LenProperties DEF FieldStates
<1>3. begin \in 0..f.from /\ end \in f.from..Len(f.text)
  <2>1. f.from \in 0..Len(f.text)
    BY <1>1, <1>2
  <2>2. begin \in 0..f.from
    BY <1>2, <2>1, BeginIs
  <2>3. end \in f.from..Len(f.text)
    BY <1>2, <2>1, EndIs
  <2> QED BY <2>2, <2>3
<1>4. part \in Seq(Written) /\ line \in Seq(Written) /\ line \in Seq(AreaKey)
  <2>1. f.from \in 0..Len(f.text) /\ f.to \in f.from..Len(f.text)
    BY <1>1, <1>2
  <2>2. part \in Seq(Written)
    BY ONLY <1>2, <2>1, part = SelectedText(f), PartIs DEF SelectedText
  <2>3. begin \in 0..Len(f.text) /\ to \in begin..Len(f.text)
    BY <1>1, <1>2, <1>3
  <2>4. line \in Seq(Written)
    BY ONLY <1>2, <2>3, line = SubSeq(f.text, begin + 1, to), PartIs
  <2>5. Written \subseteq AreaKey
    BY DEF AreaKey
  <2> QED BY <2>2, <2>4, <2>5, SeqMonotonic
<1>5. CASE Selects(f)
  <2> PICK cp : cp = [lineWise |-> FALSE, text |-> part]
    OBVIOUS
  <2>1. cp \in [lineWise : BOOLEAN, text : Seq(Written)] /\ h = [f EXCEPT !.copied = cp]
    BY <1>1, <1>4, <1>5
  <2>2. /\ h \in FieldStates /\ h.area = f.area
        /\ h.text = f.text /\ h.from = f.from /\ h.to = f.to
        /\ h.focused = f.focused /\ h.composed = f.composed /\ h.composing = f.composing
        /\ h.menu = f.menu /\ h.forMenu = f.forMenu
        /\ h.readOnly = f.readOnly /\ h.meant = f.meant
        /\ h.prev = f.prev /\ h.marked = f.marked /\ h.timer = f.timer
    BY ONLY <1>1, <2>1 DEF FieldStates
  <2>3. Loose(h)
    BY <1>1, <2>2 DEF Shape, Loose
  <2>4. Selects(h) /\ (HasSelection(h) <=> HasSelection(f))
    BY <1>5, <2>2 DEF Selects, HasSelection
  <2>5. WithSelection(f) => WithSelection(h)
    BY <2>2, <2>4 DEF WithSelection
  <2>6. f.readOnly \/ AreaKnown(h)
    BY <1>1, <1>5, <2>2, <2>4, <2>5 DEF Shape, AreaKnown
  <2> QED BY <1>1, <2>2, <2>3, <2>6 DEF Shape, Kept
<1>6. CASE ~Selects(f)
  <2> PICK cp : cp = [lineWise |-> TRUE, text |-> line]
    OBVIOUS
  <2> PICK none : none = <<>>
    OBVIOUS
  <2>1. /\ cp \in [lineWise : BOOLEAN, text : Seq(Written)] /\ none \in Seq(AreaKey)
        /\ h = [f EXCEPT !.copied = cp, !.prev = none, !.area = line, !.marked = "all"]
    BY <1>1, <1>4, <1>6, EmptySeq
  <2>2. /\ h \in FieldStates
        /\ h.text = f.text /\ h.from = f.from /\ h.to = f.to
        /\ h.focused = f.focused /\ h.composed = f.composed /\ h.composing = f.composing
        /\ h.menu = f.menu /\ h.forMenu = f.forMenu
        /\ h.readOnly = f.readOnly /\ h.meant = f.meant
        /\ h.prev = none /\ h.marked = "all" /\ h.timer = f.timer
    <3>1. f \in FieldStates /\ line \in Seq(AreaKey)
      BY <1>1, <1>4
    <3> QED BY ONLY <2>1, <3>1 DEF FieldStates
  <2>3. Loose(h)
    BY <1>1, <2>2 DEF Shape, Loose
  <2>4. ~Selects(h) /\ LineCopied(h)
    BY <1>1, <1>6, <2>2 DEF Selects, LineCopied
  <2> QED BY <1>1, <2>2, <2>3, <2>4 DEF Shape, AreaKnown, Kept
<1> QED BY <1>5, <1>6

\* Something selected, and what is meant by it is there.
LEMMA SelectingShapes ==
  ASSUME NEW f, Loose(f), ~f.composing, NEW from \in Nat, NEW to \in Nat,
         from <= to, to <= Len(f.text), NEW g, g = Selecting(f, from, to),
         NEW h, NotedAs(h, g), h.meant = h.text, h.composing = g.composing,
         h.composed = g.composed, h.readOnly = g.readOnly
  PROVE  Shape(h)
<1>1. /\ Loose(g) /\ g.text = f.text /\ g.from = from /\ g.to = to /\ ~g.forMenu
      /\ g.focused = f.focused /\ g.composing = f.composing /\ g.composed = f.composed
      /\ g.menu = f.menu /\ AreaKnown(g)
  BY SelectingIs DEF NowSelects
<1>2. /\ h \in FieldStates /\ h.text = g.text /\ h.from = g.from /\ h.to = g.to
      /\ h.forMenu = g.forMenu /\ h.area = g.area /\ h.marked = g.marked /\ h.prev = g.prev
      /\ h.focused = g.focused /\ h.menu = g.menu
  BY DEF NotedAs
<1>3. Loose(h)
  BY <1>1, <1>2 DEF Loose
<1>4. AreaKnown(h)
  <2>1. (Selects(h) <=> Selects(g)) /\ (HasSelection(h) <=> HasSelection(g))
    BY <1>2 DEF Selects, HasSelection
  <2>2. WithSelection(g) => WithSelection(h)
    BY ONLY <1>2, <2>1, h.composing = g.composing DEF WithSelection
  <2>3. AsSeen(g) => AsSeen(h)
    BY ONLY <1>2, <2>1, h.composed = g.composed DEF AsSeen
  <2>4. /\ MenuOpen(g) => MenuOpen(h)
        /\ LineCopied(g) => LineCopied(h)
        /\ PastedOver(g) => PastedOver(h)
    BY ONLY <1>2, h.composing = g.composing DEF MenuOpen, LineCopied, PastedOver
  <2> QED BY <1>1, <1>2, <2>1, <2>2, <2>3, <2>4 DEF AreaKnown
<1> QED BY <1>1, <1>2, <1>3, <1>4 DEF Shape

\* Something put in, and the cursor after it.
EditedTo(h, f, from, to, new) ==
  h = [Edited(f, from, to, new) EXCEPT !.meant = Put(f.text, from, to, new)]

\* After such a change the area is known.
LEMMA EditedShapes ==
  ASSUME NEW f, Loose(f), ~f.composing, NEW from \in Nat, NEW to \in Nat,
         from <= to, to <= Len(f.text), NEW new \in Seq(Written),
         NEW h, EditedTo(h, f, from, to, new)
  PROVE  Shape(h) /\ h.focused = f.focused /\ h.timer = f.timer
<1> PICK text : text = Put(f.text, from, to, new)
  OBVIOUS
<1> PICK p : p = from + Len(new)
  OBVIOUS
<1> PICK e : e = [f EXCEPT !.text = text]
  OBVIOUS
<1> PICK g : g = Selecting(e, p, p)
  OBVIOUS
<1>1. f \in FieldStates /\ h = [g EXCEPT !.meant = text]
  BY DEF Edited, EditedTo, Loose
<1>2. /\ f.text \in Seq(Written) /\ Len(f.text) \in Nat /\ Len(new) \in Nat
      /\ p \in Nat
  BY <1>1, LenProperties DEF FieldStates
<1>3. text \in Seq(Written) /\ p <= Len(text)
  <2>1. from \in 0..Len(f.text) /\ to \in from..Len(f.text)
    BY <1>1, <1>2
  <2>2. text \in Seq(Written) /\ IsPut(text, f.text, from, to, new)
    BY ONLY <1>2, <2>1, text = Put(f.text, from, to, new), new \in Seq(Written), PutIs
  <2>3. Len(text) = from + Len(new) + Len(f.text) - to
    BY ONLY <2>2 DEF IsPut
  <2> QED BY <1>1, <1>2, <2>2, <2>3
<1>4. /\ e \in FieldStates /\ e.area = f.area /\ e.text = text /\ e.from = f.from /\ e.to = f.to
      /\ e.focused = f.focused /\ e.composed = f.composed /\ e.composing = f.composing
      /\ e.menu = f.menu /\ e.marked = f.marked /\ e.timer = f.timer
  BY ONLY <1>1, <1>3, e = [f EXCEPT !.text = text] DEF FieldStates
<1> PICK e1 : e1 = [e EXCEPT !.from = p, !.to = p]
  OBVIOUS
<1>5. /\ e1 \in FieldStates /\ e1.area = e.area /\ e1.text = text /\ e1.from = p /\ e1.to = p
      /\ e1.focused = f.focused /\ e1.composed = f.composed /\ e1.composing = f.composing
      /\ e1.menu = f.menu /\ e1.marked = f.marked /\ e1.timer = f.timer
      /\ [e1 EXCEPT !.from = p, !.to = p, !.forMenu = FALSE] =
           [e EXCEPT !.from = p, !.to = p, !.forMenu = FALSE]
  BY ONLY <1>2, <1>4, e1 = [e EXCEPT !.from = p, !.to = p] DEF FieldStates
<1>6. g = Selecting(e1, p, p)
  BY <1>5 DEF Selecting
<1>7. Loose(e1)
  BY <1>1, <1>2, <1>3, <1>4, <1>5 DEF Shape, Loose
<1>8. NowSelects(g, e1, p, p)
  <2>1. p \in Nat /\ p <= p /\ p <= Len(e1.text)
    BY <1>2, <1>3, <1>5
  <2> QED BY ONLY <1>6, <1>7, <2>1, SelectingIs
<1>9. /\ g \in FieldStates /\ g.text = text /\ g.focused = f.focused /\ g.timer = f.timer
  BY <1>5, <1>8 DEF NowSelects, Loose
<1>10. /\ NotedAs(h, g) /\ h.meant = h.text /\ h.composing = g.composing
       /\ h.composed = g.composed /\ h.readOnly = g.readOnly /\ h.timer = g.timer
  <2>1. h = [g EXCEPT !.meant = text]
    BY <1>1
  <2> QED BY ONLY <1>3, <1>9, <2>1 DEF NotedAs, FieldStates
<1>11. Shape(h)
  <2>1. p \in Nat /\ p <= p /\ p <= Len(e1.text) /\ ~e1.composing
    BY <1>2, <1>3, <1>5
  <2> QED BY ONLY <1>6, <1>7, <1>10, <2>1, SelectingShapes
<1>12. h.focused = g.focused
  BY <1>10 DEF NotedAs
<1> QED BY <1>1, <1>9, <1>10, <1>11, <1>12

\* A command that changes the text around the cursor.
LEMMA CommandKeeps ==
  ASSUME Shape(field), field.focused => field.timer # "off",
         NEW from \in Nat, from <= field.to, NEW new \in Seq(Written),
         Command(from, field.to, new)
  PROVE  Kept(field')
<1> PICK f : f = field
  OBVIOUS
<1> PICK h : h = field'
  OBVIOUS
<1> PICK to : to = f.to
  OBVIOUS
<1>1. /\ Loose(f) /\ ~f.composing /\ to \in Nat /\ from <= to /\ to <= Len(f.text)
      /\ EditedTo(h, f, from, to, new)
      /\ f.focused => f.timer # "off"
  BY DEF Command, EditedTo, Shape, Loose, FieldStates
<1>2. Shape(h) /\ h.focused = f.focused /\ h.timer = f.timer
  BY ONLY <1>1, EditedShapes
<1> QED BY <1>1, <1>2 DEF Kept

\* Backspace and Enter are such commands.
LEMMA BoundKeysKeep ==
  ASSUME Shape(field), field.focused => field.timer # "off", PressBackspace \/ PressEnter
  PROVE  Kept(field')
<1>1. field.from \in Nat /\ field.to \in Nat /\ field.from <= field.to
  BY DEF Shape, Loose, FieldStates
<1>2. CASE PressBackspace
  <2> PICK from : from = IF Selects(field) THEN field.from ELSE field.from - 1
    OBVIOUS
  <2> PICK none : none = <<>>
    OBVIOUS
  <2>1. from \in Nat /\ from <= field.to /\ Command(from, field.to, none)
    BY <1>1, <1>2 DEF PressBackspace
  <2>2. none \in Seq(Written)
    BY EmptySeq
  <2> QED BY <2>1, <2>2, CommandKeeps
<1>3. CASE PressEnter
  <2> PICK new : new = <<LineEnd>>
    OBVIOUS
  <2>1. new \in Seq(Written) /\ Command(field.from, field.to, new)
    <3>1. LineEnd \in Written
      BY DEF Written
    <3> QED BY <1>3, <3>1 DEF PressEnter
  <2> QED BY <1>1, <2>1, CommandKeeps
<1> QED BY <1>2, <1>3

\* A selection set by the user.
LEMMA SelectTextKeeps ==
  ASSUME Shape(field), NEW from \in Nat, NEW to \in Nat, from <= to, to <= Len(field.text),
         SelectText(from, to)
  PROVE  Kept(field')
<1> PICK f : f = field
  OBVIOUS
<1> PICK h : h = field'
  OBVIOUS
<1> PICK t : t = SlowPoll(f).timer
  OBVIOUS
<1> PICK e : e = [f EXCEPT !.focused = TRUE, !.timer = t]
  OBVIOUS
<1>1. /\ Shape(f) /\ f \in FieldStates /\ ~f.composing /\ to <= Len(f.text)
      /\ h = Selecting(e, from, to)
  BY DEF SelectText, Shape, Loose
<1>2. t \in {"slow", "fast", "missed"}
  BY <1>1 DEF SlowPoll, FieldStates
<1>3. /\ e \in FieldStates /\ e.area = f.area /\ e.text = f.text /\ e.from = f.from /\ e.to = f.to
      /\ e.focused /\ e.composed = f.composed /\ e.composing = f.composing
      /\ e.menu = f.menu /\ e.marked = f.marked /\ e.timer = t /\ e.meant = f.meant
  BY ONLY <1>1, <1>2, e = [f EXCEPT !.focused = TRUE, !.timer = t] DEF FieldStates
<1>4. Loose(e)
  BY <1>1, <1>3 DEF Shape, Loose
<1>5. NowSelects(h, e, from, to)
  <2>1. to <= Len(e.text)
    BY <1>1, <1>3
  <2> QED BY ONLY <1>1, <1>4, <2>1, from <= to, from \in Nat, to \in Nat, SelectingIs
<1>6. Shape(h) /\ h.timer = t
  BY <1>1, <1>3, <1>5 DEF NowSelects, Shape
<1> QED BY <1>2, <1>6 DEF Kept

\* Leaving the editor.
LEMMA BlurFieldKeeps ==
  ASSUME Shape(field), BlurField
  PROVE  Kept(field')
<1> PICK f : f = field
  OBVIOUS
<1> PICK h : h = field'
  OBVIOUS
<1>1. /\ Shape(f) /\ f \in FieldStates /\ ~f.composing /\ f.focused
      /\ h = [f EXCEPT !.focused = FALSE]
  BY DEF BlurField, Shape, Loose
<1>2. /\ h \in FieldStates /\ h.area = f.area
      /\ h.text = f.text /\ h.from = f.from /\ h.to = f.to
      /\ ~h.focused /\ h.composed = f.composed /\ h.composing = f.composing
      /\ h.menu = f.menu /\ h.forMenu = f.forMenu
      /\ h.readOnly = f.readOnly /\ h.meant = f.meant
      /\ h.prev = f.prev /\ h.marked = f.marked /\ h.timer = f.timer
  BY ONLY <1>1 DEF FieldStates
<1>3. Loose(h)
  BY <1>1, <1>2 DEF Shape, Loose
<1>4. AreaKnown(f) => AreaKnown(h)
  <2>1. Selects(h) <=> Selects(f)
    BY <1>2 DEF Selects
  <2>2. /\ WithSelection(f) => WithSelection(h)
        /\ MenuOpen(f) => MenuOpen(h)
        /\ LineCopied(f) => LineCopied(h)
        /\ PastedOver(f) => PastedOver(h)
    BY ONLY <1>2 DEF WithSelection, MenuOpen, LineCopied, PastedOver
  <2>3. AsSeen(f) => AsSeen(h)
    BY ONLY <1>2 DEF AsSeen
  <2> QED BY <1>1, <1>2, <2>1, <2>2, <2>3 DEF AreaKnown
<1> QED BY <1>1, <1>2, <1>3, <1>4 DEF Shape, Kept

\* Coming back to it: the area is set anew, or a menu is to see to it.
LEMMA FocusFieldKeeps ==
  ASSUME Shape(field), FocusField
  PROVE  Kept(field')
<1> PICK f : f = field
  OBVIOUS
<1> PICK h : h = field'
  OBVIOUS
<1> PICK e : e = [f EXCEPT !.focused = TRUE]
  OBVIOUS
<1> PICK g : g = IF e.forMenu THEN e ELSE Reset(e, FALSE)
  OBVIOUS
<1> PICK t : t = SlowPoll(g)
  OBVIOUS
<1> PICK lost : lost = (e.forMenu /\ Selects(e) /\ ~HasSelection(e))
  OBVIOUS
<1>1. /\ Shape(f) /\ f \in FieldStates /\ ~f.composing /\ ~f.focused
      /\ h = [t EXCEPT !.astray = @ \/ (e.forMenu /\ Selects(e) /\ ~HasSelection(e))]
  BY DEF FocusField, Shape, Loose
<1>2. /\ e \in FieldStates /\ e.area = f.area
      /\ e.text = f.text /\ e.from = f.from /\ e.to = f.to
      /\ e.focused /\ e.composed = f.composed /\ e.composing = f.composing
      /\ e.menu = f.menu /\ e.forMenu = f.forMenu
      /\ e.readOnly = f.readOnly /\ e.meant = f.meant
      /\ e.prev = f.prev /\ e.marked = f.marked /\ e.timer = f.timer
  BY ONLY <1>1, e = [f EXCEPT !.focused = TRUE] DEF FieldStates
<1>3. Loose(e) /\ e.text = e.meant /\ ~e.composing /\ e.composed = 0
  BY <1>1, <1>2 DEF Shape, Loose
<1>4. g \in FieldStates /\ g.focused
  <2>1. CASE e.forMenu
    BY <1>2, <2>1
  <2>2. CASE ~e.forMenu
    <3>1. WasReset(g, e)
      BY <1>2, <1>3, <2>2, ResetIs DEF Loose
    <3> QED BY <1>2, <3>1 DEF WasReset, SameOffArea
  <2> QED BY <2>1, <2>2
<1>5. /\ t \in FieldStates /\ t.area = g.area
      /\ t.text = g.text /\ t.from = g.from /\ t.to = g.to
      /\ t.focused = g.focused /\ t.composed = g.composed /\ t.composing = g.composing
      /\ t.menu = g.menu /\ t.forMenu = g.forMenu
      /\ t.readOnly = g.readOnly /\ t.meant = g.meant
      /\ t.prev = g.prev /\ t.marked = g.marked /\ t.timer # "off"
  BY ONLY <1>4, t = SlowPoll(g) DEF SlowPoll, FieldStates
<1>6. /\ h \in FieldStates /\ h.area = g.area
      /\ h.text = g.text /\ h.from = g.from /\ h.to = g.to
      /\ h.focused = g.focused /\ h.composed = g.composed /\ h.composing = g.composing
      /\ h.menu = g.menu /\ h.forMenu = g.forMenu
      /\ h.readOnly = g.readOnly /\ h.meant = g.meant
      /\ h.prev = g.prev /\ h.marked = g.marked /\ h.timer # "off"
      /\ e.forMenu /\ Selects(e) /\ ~HasSelection(e) => h.astray
  BY ONLY <1>1, <1>5 DEF FieldStates
<1>7. CASE e.forMenu
  <2>1. Loose(h) /\ h.text = h.meant
    BY <1>2, <1>3, <1>6, <1>7 DEF Loose
  <2>2. CASE ~(Selects(e) /\ ~HasSelection(e)) /\ ~f.readOnly
    <3>1. AreaKnown(f)
      BY <1>1, <2>2 DEF Shape
    <3>2. AreaKnown(h)
      <4>1. (Selects(h) <=> Selects(f)) /\ (Selects(e) <=> Selects(f))
        BY <1>2, <1>6, <1>7 DEF Selects
      <4>2. (HasSelection(h) <=> HasSelection(f)) /\ (HasSelection(e) <=> HasSelection(f))
        BY <1>2, <1>6, <1>7 DEF HasSelection
      <4>3. /\ Selects(f) /\ WithSelection(f) => WithSelection(h)
            /\ MenuOpen(f) => MenuOpen(h)
            /\ LineCopied(f) => LineCopied(h)
            /\ PastedOver(f) => PastedOver(h)
        BY <1>2, <1>6, <1>7, <2>2, <4>1, <4>2 DEF WithSelection, MenuOpen, LineCopied, PastedOver
      <4>4. AsSeen(f) => AsSeen(h)
        BY <1>2, <1>6, <1>7 DEF AsSeen
      <4> QED BY <1>2, <1>6, <1>7, <3>1, <4>1, <4>3, <4>4 DEF AreaKnown
    <3> QED BY <1>3, <1>6, <1>7, <2>1, <3>2 DEF Shape, Kept
  <2>3. CASE Selects(e) /\ ~HasSelection(e)
    BY <1>6, <1>7, <2>3 DEF Kept
  <2>4. CASE f.readOnly
    BY <1>2, <1>6, <1>7, <2>1, <2>4 DEF Shape, Kept
  <2> QED BY <2>2, <2>3, <2>4
<1>8. CASE ~e.forMenu
  <2>1. WasReset(g, e)
    BY <1>2, <1>3, <1>8, ResetIs DEF Loose
  <2>2. /\ h.text = e.text /\ h.from = e.from /\ h.to = e.to /\ h.focused
        /\ h.composed = 0 /\ ~h.composing /\ h.menu = e.menu /\ ~h.forMenu
        /\ h.readOnly = e.readOnly /\ h.meant = e.text
    BY ONLY <1>2, <1>3, <1>4, <1>6, <1>8, <2>1 DEF WasReset, SameOffArea
  <2>3. (Selects(h) <=> Selects(e)) /\ h.from \in Nat
    BY <1>6, <2>2 DEF Selects, FieldStates
  <2>4. CASE e.menu = "pending"
    <3>1. h.area = e.area /\ h.marked = e.marked
      BY <1>6, <2>1, <2>4 DEF WasReset
    <3> QED BY <1>3, <1>6, <2>2, <2>4, <3>1 DEF Loose, AreaKnown, Shape, Kept
  <2>5. CASE e.menu # "pending" /\ Selects(e)
    <3>1. h.area # <<>> /\ h.prev = <<>> /\ h.marked = "all"
      BY <1>2, <1>6, <2>1, <2>5 DEF WasReset
    <3>2. WithSelection(h)
      BY <2>2, <3>1 DEF WithSelection, HasSelection
    <3> QED BY <1>3, <1>6, <2>2, <2>3, <2>5, <3>1, <3>2 DEF Loose, AreaKnown, Shape, Kept
  <2>6. CASE e.menu # "pending" /\ ~Selects(e)
    <3>1. h.area = <<>> /\ h.prev = <<>> /\ h.marked = "none"
      BY <1>6, <2>1, <2>6 DEF WasReset, InArea
    <3>2. AsSeen(h)
      BY <2>2, <2>3, <3>1 DEF AsSeen
    <3> QED BY <1>3, <1>6, <2>2, <2>3, <2>6, <3>1, <3>2 DEF Loose, AreaKnown, Shape, Kept
  <2> QED BY <2>4, <2>5, <2>6
<1> QED BY <1>7, <1>8

\* A reset leaves the rest of it as it was.
LEMMA ResetLoose ==
  ASSUME NEW f, Loose(f), NEW g, WasReset(g, f)
  PROVE  Loose(g)
<1>0. SameOffArea(g, f)
  BY DEF WasReset
<1>1. /\ g \in FieldStates /\ g.text = f.text /\ g.from = f.from /\ g.to = f.to
      /\ g.focused = f.focused /\ g.composing = f.composing /\ g.composed = f.composed
      /\ g.menu = f.menu
  BY <1>0 DEF SameOffArea
<1>2. CASE f.menu = "pending"
  <2>1. g = f
    BY <1>2 DEF WasReset
  <2> QED BY <2>1
<1>3. CASE f.menu # "pending"
  <2>1. g.marked # "rest"
    <3>1. CASE Selects(f)
      <4>1. g.marked = IF f.focused THEN "all" ELSE "none"
        BY <1>3, <3>1 DEF WasReset
      <4> QED BY ONLY <4>1
    <3>2. CASE ~Selects(f)
      <4>1. g.marked = "none"
        BY <1>3, <3>2 DEF WasReset, InArea
      <4> QED BY ONLY <4>1
    <3> QED BY <3>1, <3>2
  <2> QED BY <1>1, <1>3, <2>1 DEF Loose
<1> QED BY <1>2, <1>3

\* The menu opened, within what is selected or without.
LEMMA ContextMenuKeeps ==
  ASSUME Shape(field), NEW at \in 0..Len(field.text), ContextMenu(at)
  PROVE  Kept(field')
<1> PICK f : f = field
  OBVIOUS
<1> PICK h : h = field'
  OBVIOUS
<1> PICK t : t = SlowPoll(f).timer
  OBVIOUS
<1> PICK e : e = [f EXCEPT !.focused = TRUE, !.timer = t]
  OBVIOUS
<1> PICK d : d = IF Selects(e) /\ at \in e.from..e.to THEN e ELSE Selecting(e, at, at)
  OBVIOUS
<1> PICK g : g = Reset(d, FALSE)
  OBVIOUS
<1> PICK area : area = IF Selects(g) THEN g.area ELSE <<Space>>
  OBVIOUS
<1> PICK prev : prev = IF Selects(g) THEN g.prev ELSE <<Space>>
  OBVIOUS
<1>1. /\ Shape(f) /\ f \in FieldStates /\ ~f.composing /\ at \in 0..Len(f.text)
      /\ h = [g EXCEPT !.area = IF Selects(g) THEN @ ELSE <<Space>>,
                      !.prev = IF Selects(g) THEN @ ELSE <<Space>>,
                      !.menu = "pending", !.forMenu = TRUE]
  BY DEF ContextMenu, Shape, Loose
<1>2. t \in {"slow", "fast", "missed"}
  BY <1>1 DEF SlowPoll, FieldStates
<1>3. /\ e \in FieldStates /\ e.area = f.area /\ e.text = f.text /\ e.from = f.from /\ e.to = f.to
      /\ e.focused /\ e.composed = f.composed /\ e.composing = f.composing
      /\ e.menu = f.menu /\ e.marked = f.marked /\ e.timer = t /\ e.meant = f.meant
  BY ONLY <1>1, <1>2, e = [f EXCEPT !.focused = TRUE, !.timer = t] DEF FieldStates
<1>4. Loose(e) /\ e.text = e.meant /\ ~e.composing
  BY <1>1, <1>3 DEF Shape, Loose
<1>5. Loose(d) /\ d.text = d.meant /\ ~d.composing /\ d.timer = t
  <2>1. CASE d = e
    BY <1>3, <1>4, <2>1
  <2>2. CASE d = Selecting(e, at, at)
    <3>1. at \in Nat /\ at <= at /\ at <= Len(e.text)
      BY <1>1, <1>3, LenProperties DEF FieldStates
    <3>2. NowSelects(d, e, at, at)
      BY ONLY <1>4, <2>2, <3>1, SelectingIs
    <3> QED BY <1>3, <1>4, <3>2 DEF NowSelects
  <2> QED BY <2>1, <2>2
<1>6. WasReset(g, d) /\ d \in FieldStates
  BY <1>5, ResetIs DEF Loose
<1>7. Loose(g) /\ g.text = g.meant /\ ~g.composing /\ g.timer = t /\ g \in FieldStates
  <2>1. Loose(g)
    BY ONLY <1>5, <1>6, ResetLoose
  <2>2. SameOffArea(g, d)
    BY <1>6 DEF WasReset
  <2> QED BY ONLY <1>5, <2>1, <2>2 DEF SameOffArea
<1>8. area \in Seq(AreaKey) /\ prev \in Seq(AreaKey) /\ area # <<>>
  <2>1. <<Space>> \in Seq(AreaKey) /\ <<Space>> # <<>>
    <3>1. Space \in AreaKey
      BY DEF AreaKey
    <3> QED BY <3>1
  <2>2. Selects(g) => g.area # <<>>
    <3> SUFFICES ASSUME Selects(g) PROVE g.area # <<>>
      OBVIOUS
    <3>1. CASE d.menu = "pending"
      BY <1>5, <1>6, <3>1 DEF WasReset, Loose
    <3>2. CASE d.menu # "pending"
      <4>1. Selects(d)
        BY <1>6 DEF WasReset, SameOffArea, Selects
      <4> QED BY <1>6, <3>2, <4>1 DEF WasReset
    <3> QED BY <3>1, <3>2
  <2>3. g.area \in Seq(AreaKey) /\ g.prev \in Seq(AreaKey)
    BY <1>7 DEF FieldStates
  <2> QED BY <2>1, <2>2, <2>3
<1>9. h = [g EXCEPT !.area = area, !.prev = prev, !.menu = "pending", !.forMenu = TRUE]
  BY <1>1
<1>10. /\ h \in FieldStates /\ h.text = g.text /\ h.from = g.from /\ h.to = g.to
       /\ h.area = area /\ h.menu = "pending" /\ h.focused = g.focused
       /\ h.composing = g.composing /\ h.composed = g.composed
       /\ h.timer = g.timer /\ h.meant = g.meant
  BY ONLY <1>7, <1>8, <1>9 DEF FieldStates
<1>11. Loose(h)
  BY <1>7, <1>8, <1>10 DEF Loose
<1>12. Shape(h)
  BY <1>7, <1>10, <1>11 DEF Shape, AreaKnown
<1> QED BY <1>2, <1>7, <1>10, <1>12 DEF Kept

\* The area hidden again, with a character of no width before what it held.
LEMMA RehideKeeps ==
  ASSUME Shape(field), field.focused => field.timer # "off", Rehide
  PROVE  Kept(field')
<1> PICK f : f = field
  OBVIOUS
<1> PICK h : h = field'
  OBVIOUS
<1> PICK one : one = <<ZeroWidth>>
  OBVIOUS
<1> PICK none : none = <<>>
  OBVIOUS
<1> PICK rest : rest = IF Selects(f) THEN f.area ELSE none
  OBVIOUS
<1> PICK area : area = one \o rest
  OBVIOUS
<1> PICK prev : prev = IF Selects(f) THEN none ELSE one
  OBVIOUS
<1>1. /\ Shape(f) /\ f \in FieldStates /\ f.menu = "pending" /\ ~f.composing
      /\ f.area # <<>> /\ (f.focused => f.timer # "off")
      /\ h = [f EXCEPT !.menu = "shown", !.forMenu = TRUE, !.marked = "rest",
                      !.area = area, !.prev = prev]
  BY DEF Rehide, Shape, Loose
<1>2. /\ one \in Seq(AreaKey) /\ none \in Seq(AreaKey) /\ rest \in Seq(AreaKey) /\ Len(one) = 1
      /\ one[1] = ZeroWidth
  <2>1. ZeroWidth \in AreaKey
    BY DEF AreaKey
  <2>2. f.area \in Seq(AreaKey)
    BY <1>1 DEF FieldStates
  <2> QED BY <2>1, <2>2, EmptySeq
<1>3. area \in Seq(AreaKey) /\ Len(area) = 1 + Len(rest) /\ area[1] = ZeroWidth /\ Len(rest) \in Nat
  <2>1. area \in Seq(AreaKey) /\ IsBoth(area, one, rest)
    BY <1>2, BothIs
  <2>2. Len(area) = Len(one) + Len(rest) /\ \A i \in 1..Len(one) : area[i] = one[i]
    BY ONLY <2>1 DEF IsBoth
  <2>3. 1 \in 1..Len(one)
    BY <1>2
  <2> QED BY <1>2, <2>1, <2>2, <2>3, LenProperties
<1>4. prev \in Seq(AreaKey)
  BY <1>2
<1>5. /\ h \in FieldStates /\ h.text = f.text /\ h.from = f.from /\ h.to = f.to
      /\ h.area = area /\ h.prev = prev /\ h.marked = "rest"
      /\ h.menu = "shown" /\ h.focused = f.focused /\ h.forMenu
      /\ h.composing = f.composing /\ h.composed = f.composed
      /\ h.timer = f.timer /\ h.meant = f.meant
  BY ONLY <1>1, <1>3, <1>4 DEF FieldStates
<1>6. area # <<>>
  BY <1>3, EmptySeq
<1>7. Loose(h)
  BY <1>1, <1>5, <1>6 DEF Shape, Loose
<1>8. CASE Selects(f)
  <2>1. Len(area) > 1
    <3>1. Len(rest) # 0
      <4>1. rest \in Seq(AreaKey) /\ rest # <<>>
        BY <1>1, <1>2, <1>8
      <4> QED BY <4>1, EmptySeq
    <3> QED BY <1>3, <3>1
  <2>2. Selects(h) /\ WithSelection(h)
    BY <1>1, <1>3, <1>5, <1>6, <1>8, <2>1 DEF Selects, WithSelection, HasSelection
  <2> QED BY <1>1, <1>5, <1>7, <2>2 DEF Shape, AreaKnown, Kept
<1>9. CASE ~Selects(f)
  <2>1. area = one
    BY <1>2, <1>9, ConcatEmptySeq
  <2>2. ~Selects(h) /\ MenuOpen(h)
    BY <1>1, <1>5, <1>9, <2>1 DEF Selects, MenuOpen
  <2> QED BY <1>1, <1>5, <1>7, <2>2 DEF Shape, AreaKnown, Kept
<1> QED BY <1>8, <1>9

\* All of the area selected from the menu, which nothing has told of yet.
LEMMA MenuSelectsAllKeeps ==
  ASSUME Shape(field), field.focused => field.timer # "off", MenuSelectsAll
  PROVE  Kept(field')
<1> PICK f : f = field
  OBVIOUS
<1> PICK h : h = field'
  OBVIOUS
<1>1. /\ Shape(f) /\ f \in FieldStates /\ f.menu = "shown" /\ f.forMenu /\ f.focused
      /\ f.timer # "off" /\ h = [f EXCEPT !.marked = "all"]
  BY DEF MenuSelectsAll, Shape, Loose
<1>2. /\ h \in FieldStates /\ h.area = f.area
      /\ h.text = f.text /\ h.from = f.from /\ h.to = f.to
      /\ h.focused = f.focused /\ h.composed = f.composed /\ h.composing = f.composing
      /\ h.menu = f.menu /\ h.forMenu = f.forMenu
      /\ h.readOnly = f.readOnly /\ h.meant = f.meant
      /\ h.prev = f.prev /\ h.marked = "all" /\ h.timer = f.timer
  BY ONLY <1>1 DEF FieldStates
<1>3. Loose(h)
  BY <1>1, <1>2 DEF Shape, Loose
<1>4. ASSUME ~f.readOnly PROVE AreaKnown(h)
  <2>1. AreaKnown(f) /\ ~AsSeen(f) /\ ~PastedOver(f)
    BY <1>1, <1>4 DEF Shape, AsSeen, PastedOver
  <2>2. Selects(h) <=> Selects(f)
    BY <1>2 DEF Selects
  <2>3. CASE Selects(f)
    <3>1. WithSelection(f)
      BY <1>1, <2>1, <2>3 DEF AreaKnown
    <3>2. HasSelection(f)
      BY <1>1, <3>1 DEF WithSelection
    <3>3. WithSelection(h)
      BY <1>2, <3>1, <3>2 DEF WithSelection, HasSelection
    <3> QED BY <2>2, <2>3, <3>3 DEF AreaKnown
  <2>4. CASE ~Selects(f)
    <3>1. MenuOpen(f) \/ LineCopied(f)
      BY <1>1, <2>1, <2>4 DEF AreaKnown
    <3>2. MenuOpen(h) \/ LineCopied(h)
      BY <1>2, <3>1 DEF MenuOpen, LineCopied
    <3> QED BY <2>2, <2>4, <3>2 DEF AreaKnown
  <2> QED BY <2>3, <2>4
<1> QED BY <1>1, <1>2, <1>3, <1>4 DEF Shape, Kept

\* Removed through the area: what is selected.
Removed(g, e, f, text) ==
  /\ e \in FieldStates /\ e.focused /\ e.menu # "pending" /\ e.marked = "none"
  /\ ~e.composing /\ e.composed = 0 /\ e.timer = f.timer
  /\ PollKeeps(g, e)
  /\ g.astray \/ TakenIn(g, e, text, f.from, 0)

\* So does poll, when nothing was entered for what is selected.
LEMMA RemovedIs ==
  ASSUME NEW f, Shape(f), f.focused, f.menu # "pending", ~f.readOnly, Selects(f),
         NEW e, e = Entered(f, <<>>), NEW g, g = Poll(e),
         NEW text, text = Put(f.text, f.from, f.to, <<>>)
  PROVE  Removed(g, e, f, text)
<1> PICK keys : keys = <<>>
  OBVIOUS
<1>1. WithSelection(f)
  BY DEF Shape, AreaKnown
<1>2. ~f.composing /\ ~Unnoticed(f)
  BY <1>1 DEF WithSelection, Unnoticed
<1>3. /\ f \in FieldStates /\ f.composed = 0 /\ (f.marked = "rest" => f.area # <<>>)
      /\ f.from + 0 = f.from
  BY <1>2 DEF Shape, Loose, FieldStates
<1>4. keys \in Seq(Key) /\ Len(keys) = 0
  BY EmptySeq
<1>5. EnteredAs(e, f, keys) /\ e.timer = f.timer /\ e.composing = f.composing
  <2>1. e = Entered(f, keys)
    OBVIOUS
  <2> QED BY ONLY <1>3, <1>4, <2>1, EnteredIs
<1>6. /\ e \in FieldStates /\ e.focused /\ e.menu # "pending" /\ e.marked = "none"
      /\ ~e.composing /\ e.composed = 0
  BY <1>2, <1>3, <1>5 DEF EnteredAs
<1>7. g.astray \/ TakenIn(g, e, text, f.from, 0)
  <2> PICK n : n = Len(keys)
    OBVIOUS
  <2> PICK p : p = f.from + n
    OBVIOUS
  <2>1. text = Put(f.text, f.from, f.to, keys)
    OBVIOUS
  <2>2. /\ Shape(f) /\ f.focused /\ f.menu # "pending" /\ ~f.readOnly /\ Selects(f)
        /\ g = Poll(e)
    OBVIOUS
  <2>3. g.astray \/ TakenIn(g, e, text, p, n)
    BY ONLY <1>2, <1>4, <1>5, <2>1, <2>2, n = Len(keys), p = f.from + n, EnteredPuts
  <2> QED BY <1>3, <1>4, <2>3
<1>8. PollKeeps(g, e)
  BY <1>6, PollIs
<1> QED BY <1>5, <1>6, <1>7, <1>8 DEF Removed

\* What is selected, cut.
LEMMA CutShapes ==
  ASSUME NEW f, Shape(f), f.focused, f.timer # "off", f.menu # "pending", ~f.readOnly,
         Selects(f), NEW cp \in [lineWise : BOOLEAN, text : Seq(Written)],
         NEW text, text = Put(f.text, f.from, f.to, <<>>),
         NEW g, g = Poll(Entered(f, <<>>)),
         NEW h, h = [g EXCEPT !.copied = cp, !.meant = text]
  PROVE  Kept(h)
<1> PICK e : e = Entered(f, <<>>)
  OBVIOUS
<1>1. Removed(g, e, f, text)
  BY RemovedIs
<1>2. /\ e \in FieldStates /\ e.focused /\ e.menu # "pending" /\ e.marked = "none"
      /\ ~e.composing /\ e.composed = 0 /\ e.timer = f.timer
      /\ DOMAIN g = DOMAIN e /\ g.focused = e.focused /\ g.timer = e.timer
      /\ g.astray \/ TakenIn(g, e, text, f.from, 0)
  BY <1>1 DEF Removed, PollKeeps
<1>3. h.astray = g.astray /\ h.timer = g.timer
  BY ONLY <1>2, h = [g EXCEPT !.copied = cp, !.meant = text] DEF FieldStates
<1>4. CASE g.astray
  BY <1>2, <1>3, <1>4 DEF Kept
<1>5. CASE TakenIn(g, e, text, f.from, 0)
  <2>1. /\ g \in FieldStates /\ text \in Seq(Written) /\ g.composing = e.composing
        /\ g.composed = e.composed
    BY <1>5 DEF TakenIn, Taken
  <2>2. NotedAs(h, g) /\ h.meant = text /\ h.composing = e.composing /\ h.composed = e.composed
    BY ONLY <2>1, cp \in [lineWise : BOOLEAN, text : Seq(Written)],
            h = [g EXCEPT !.copied = cp, !.meant = text] DEF NotedAs, FieldStates
  <2>3. /\ e.focused /\ e.menu # "pending" /\ e.marked = "none"
        /\ h.composing => h.composed = 0
        /\ ~h.composing => h.composed = 0
    BY <1>2, <2>2
  <2>4. Shape(h)
    BY ONLY <1>5, <2>2, <2>3, TakenShapes
  <2> QED BY <1>2, <1>3, <2>4 DEF Kept
<1> QED BY <1>2, <1>4, <1>5

\* With nothing selected the line is selected first, and cut then.
LEMMA CutTextKeeps ==
  ASSUME Shape(field), field.focused => field.timer # "off", CutText
  PROVE  Kept(field')
<1> PICK f : f = field
  OBVIOUS
<1> PICK h : h = field'
  OBVIOUS
<1> PICK begin : begin = BeginOf(f.text, f.from)
  OBVIOUS
<1> PICK end : end = EndOf(f.text, f.from)
  OBVIOUS
<1> PICK past : past = IF end < Len(f.text) THEN end + 1 ELSE end
  OBVIOUS
<1> PICK from : from = IF Selects(f) THEN f.from ELSE begin
  OBVIOUS
<1> PICK to : to = IF Selects(f) THEN f.to ELSE past
  OBVIOUS
<1> PICK x : x = IF Selects(f) THEN f ELSE Selecting(f, from, to)
  OBVIOUS
<1> PICK part : part = SubSeq(f.text, from + 1, to)
  OBVIOUS
<1> PICK cp : cp = [lineWise |-> ~Selects(f), text |-> part]
  OBVIOUS
<1> PICK text : text = Put(f.text, from, to, <<>>)
  OBVIOUS
<1> PICK g : g = Poll(Entered(x, <<>>))
  OBVIOUS
<1>1. /\ Shape(f) /\ f.timer # "off" /\ ~f.composing /\ f.focused /\ ~f.readOnly
      /\ f.menu # "pending" /\ Loose(f) /\ f.text = f.meant
      /\ f \in FieldStates /\ f.from <= f.to /\ f.to <= Len(f.text)
      /\ from # to /\ h = [g EXCEPT !.copied = cp, !.meant = text]
  BY DEF CutText, CopyLine, Shape, Loose
<1>2. f.text \in Seq(Written) /\ f.from \in Nat /\ f.to \in Nat /\ Len(f.text) \in Nat
  BY <1>1, LenProperties DEF FieldStates
<1>3. begin \in 0..f.from /\ end \in f.from..Len(f.text)
  <2>1. f.from \in 0..Len(f.text)
    BY <1>1, <1>2
  <2>2. begin \in 0..f.from
    BY <1>2, <2>1, BeginIs
  <2>3. end \in f.from..Len(f.text)
    BY <1>2, <2>1, EndIs
  <2> QED BY <2>2, <2>3
<1>4. from \in 0..Len(f.text) /\ to \in from..Len(f.text) /\ from \in Nat /\ to \in Nat
      /\ from <= to /\ to <= Len(f.text)
  BY <1>1, <1>2, <1>3
<1>5. cp \in [lineWise : BOOLEAN, text : Seq(Written)]
  <2>1. part \in Seq(Written)
    BY ONLY <1>2, <1>4, part = SubSeq(f.text, from + 1, to), PartIs
  <2>2. Selects(f) \in BOOLEAN
    BY DEF Selects
  <2> QED BY <2>1, <2>2
<1>6. /\ Shape(x) /\ x.focused /\ x.timer # "off" /\ x.menu # "pending" /\ ~x.readOnly
      /\ Selects(x) /\ x.text = f.text /\ x.from = from /\ x.to = to
  <2>1. CASE Selects(f)
    BY <1>1, <2>1
  <2>2. CASE ~Selects(f)
    <3>1. x = Selecting(f, from, to)
      BY <2>2
    <3>2. NowSelects(x, f, from, to)
      BY ONLY <1>1, <1>4, <3>1, SelectingIs
    <3>3. Shape(x)
      BY <1>1, <3>2 DEF NowSelects, Shape
    <3>4. /\ x.text = f.text /\ x.from = from /\ x.to = to /\ x.focused = f.focused
          /\ x.timer = f.timer /\ x.menu = f.menu /\ x.readOnly = f.readOnly
      BY ONLY <3>2 DEF NowSelects
    <3>5. Selects(x)
      BY ONLY <1>1, <3>4 DEF Selects
    <3> QED BY ONLY <1>1, <3>3, <3>4, <3>5
  <2> QED BY <2>1, <2>2
<1>7. text = Put(x.text, x.from, x.to, <<>>)
  BY <1>6
<1>8. h = [g EXCEPT !.copied = cp, !.meant = text]
  BY <1>1
<1>9. Kept(h)
  BY ONLY <1>5, <1>6, <1>7, <1>8, g = Poll(Entered(x, <<>>)), CutShapes
<1> QED BY <1>9

\* What is selected, deleted from the menu.
LEMMA MenuDeletesKeeps ==
  ASSUME Shape(field), field.focused => field.timer # "off", MenuDeletes
  PROVE  Kept(field')
<1> PICK f : f = field
  OBVIOUS
<1> PICK h : h = field'
  OBVIOUS
<1> PICK none : none = <<>>
  OBVIOUS
<1> PICK e : e = Entered(f, none)
  OBVIOUS
<1> PICK g : g = Poll(e)
  OBVIOUS
<1> PICK text : text = Put(f.text, f.from, f.to, none)
  OBVIOUS
<1>1. /\ Shape(f) /\ f.timer # "off" /\ f.focused /\ f.menu = "shown" /\ f.forMenu
      /\ f.marked = "rest" /\ HasSelection(f) /\ f \in FieldStates
      /\ f.area # <<>> /\ ~f.composing /\ f.composed = 0
      /\ h = [g EXCEPT !.meant = IF f.readOnly THEN @ ELSE text]
  BY DEF MenuDeletes, Meant, Shape, Loose
<1>2. EnteredAs(e, f, none) /\ e.timer = f.timer /\ e.composing = f.composing
  <2>1. none \in Seq(Key)
    BY EmptySeq
  <2>2. f \in FieldStates /\ (f.marked = "rest" => f.area # <<>>)
    BY <1>1
  <2> QED BY ONLY <2>1, <2>2, e = Entered(f, none), EnteredIs
<1>3. /\ e \in FieldStates /\ e.focused = f.focused /\ e.menu = f.menu /\ e.marked = "none"
      /\ e.composed = f.composed /\ e.readOnly = f.readOnly
      /\ e.text = f.text /\ e.from = f.from /\ e.to = f.to /\ e.meant = f.meant
  BY <1>2 DEF EnteredAs
<1>4. PollKeeps(g, e)
  BY <1>3, PollIs
<1>5. h.timer = f.timer
  BY ONLY <1>1, <1>2, <1>3, <1>4 DEF PollKeeps, FieldStates
<1>6. CASE f.readOnly
  <2>1. g = e
    BY <1>3, <1>4, <1>6 DEF PollKeeps
  <2>2. h = e
    BY ONLY <1>1, <1>3, <1>6, <2>1 DEF FieldStates
  <2>3. Shape(h)
    <3>1. /\ f.from <= f.to /\ f.to <= Len(f.text) /\ f.text = f.meant
      BY <1>1 DEF Shape, Loose
    <3>2. /\ h \in FieldStates /\ h.marked = "none" /\ h.menu = "shown" /\ h.readOnly
          /\ ~h.composing /\ h.composed = 0 /\ h.text = h.meant
          /\ h.from <= h.to /\ h.to <= Len(h.text)
      BY ONLY <1>1, <1>2, <1>3, <1>6, <2>2, <3>1
    <3> QED BY ONLY <3>2 DEF Shape, Loose
  <2> QED BY <1>1, <1>5, <2>3 DEF Kept
<1>7. CASE ~f.readOnly
  <2>1. Selects(f)
    <3>1. AreaKnown(f)
      BY <1>1, <1>7 DEF Shape
    <3>2. ~AsSeen(f) /\ ~LineCopied(f) /\ ~PastedOver(f) /\ ~MenuOpen(f)
      <4>1. Len(f.area) > 1
        BY <1>1 DEF HasSelection
      <4>2. ~MenuOpen(f)
        <5> PICK one : one = <<ZeroWidth>>
          OBVIOUS
        <5>1. Len(one) = 1
          OBVIOUS
        <5>2. f.area # <<ZeroWidth>>
          <6> SUFFICES ASSUME f.area = one PROVE FALSE
            BY one = <<ZeroWidth>>
          <6>1. Len(f.area) = 1
            BY ONLY <5>1, f.area = one
          <6> QED BY ONLY <4>1, <6>1
        <5> QED BY ONLY <5>2 DEF MenuOpen
      <4> QED BY <1>1, <4>2 DEF AsSeen, LineCopied, PastedOver
    <3> QED BY <1>1, <3>1, <3>2 DEF AreaKnown
  <2>2. Removed(g, e, f, text)
    BY <1>1, <1>7, <2>1, RemovedIs
  <2>3. g.astray \/ TakenIn(g, e, text, f.from, 0)
    BY <2>2 DEF Removed
  <2>4. CASE g.astray
    <3>1. h.astray
      BY ONLY <1>1, <1>3, <1>4, <2>4 DEF PollKeeps, FieldStates
    <3> QED BY <1>1, <1>5, <3>1 DEF Kept
  <2>5. CASE TakenIn(g, e, text, f.from, 0)
    <3>1. /\ g \in FieldStates /\ text \in Seq(Written) /\ g.composing = e.composing
          /\ g.composed = e.composed
      BY <2>5 DEF TakenIn, Taken
    <3>2. NotedAs(h, g) /\ h.meant = text /\ h.composing = e.composing /\ h.composed = e.composed
      BY ONLY <1>1, <1>7, <3>1 DEF NotedAs, FieldStates
    <3>3. /\ e.focused /\ e.menu # "pending" /\ e.marked = "none"
          /\ h.composing => h.composed = 0
          /\ ~h.composing => h.composed = 0
      BY <1>1, <1>2, <1>3, <3>2
    <3>4. Shape(h)
      BY ONLY <2>5, <3>2, <3>3, TakenShapes
    <3> QED BY <1>1, <1>5, <3>4 DEF Kept
  <2> QED BY <2>3, <2>4, <2>5
<1> QED BY <1>6, <1>7

\* All of a text replaced.
LEMMA PutAll ==
  ASSUME NEW E, NEW text \in Seq(E), NEW new \in Seq(E)
  PROVE  Put(text, 0, Len(text), new) = new
<1> PICK to : to = Len(text)
  OBVIOUS
<1> PICK out : out = Put(text, 0, to, new)
  OBVIOUS
<1>0. to \in Nat /\ Len(new) \in Nat /\ 0 \in 0..Len(text) /\ to \in 0..Len(text)
  BY LenProperties
<1>1. out \in Seq(E) /\ IsPut(out, text, 0, to, new)
  BY ONLY <1>0, text \in Seq(E), new \in Seq(E), out = Put(text, 0, to, new), PutIs
<1>2. /\ Len(out) = 0 + Len(new) + Len(text) - to
      /\ \A i \in 1..Len(new) : out[0 + i] = new[i]
  BY ONLY <1>1 DEF IsPut
<1>3. Len(out) = Len(new) /\ \A i \in 1..Len(out) : out[i] = new[i]
  BY ONLY <1>0, <1>2, to = Len(text)
<1> QED BY ONLY <1>1, <1>3, new \in Seq(E), SeqEqual, out = Put(text, 0, to, new), to = Len(text)

\* All of the text replaced, by an undo from the menu.
LEMMA MenuUndoesKeeps ==
  ASSUME Shape(field), field.focused => field.timer # "off",
         NEW new \in Seq(Written), MenuUndoes(new)
  PROVE  Kept(field')
<1> PICK f : f = field
  OBVIOUS
<1> PICK h : h = field'
  OBVIOUS
<1> PICK g : g = Reset(f, FALSE)
  OBVIOUS
<1> PICK to : to = Len(f.text)
  OBVIOUS
<1>1. /\ Shape(f) /\ f.timer # "off" /\ f.focused /\ f.menu = "shown" /\ f.forMenu
      /\ ~f.readOnly /\ Loose(f) /\ f \in FieldStates
      /\ h = [Edited(g, 0, to, new) EXCEPT !.meant = new]
  BY DEF MenuUndoes, Shape, Loose
<1>2. WasReset(g, f)
  BY <1>1, ResetIs DEF Loose
<1>3. Loose(g)
  BY ONLY <1>1, <1>2, ResetLoose
<1>4. /\ g.text = f.text /\ g.composing = f.composing /\ g.timer = f.timer
      /\ g.text \in Seq(Written)
  BY <1>2 DEF WasReset, SameOffArea, FieldStates
<1>5. ~g.composing
  BY <1>1, <1>4 DEF Shape
<1>6. to \in Nat /\ 0 <= to /\ to <= Len(g.text) /\ 0 \in Nat
  <2>1. Len(g.text) = to
    BY <1>4
  <2>2. Len(g.text) \in Nat
    BY <1>4, LenProperties
  <2> QED BY ONLY <2>1, <2>2
<1>7. EditedTo(h, g, 0, to, new)
  <2>1. Put(g.text, 0, Len(g.text), new) = new
    BY <1>4, PutAll
  <2>2. Put(g.text, 0, to, new) = new
    BY <1>4, <2>1
  <2> QED BY <1>1, <2>2 DEF EditedTo
<1>8. Shape(h) /\ h.timer = g.timer
  BY ONLY <1>3, <1>5, <1>6, <1>7, new \in Seq(Written), EditedShapes
<1> QED BY <1>1, <1>4, <1>8 DEF Kept

\* The area as it was.
SameArea(h, f) ==
  /\ h \in FieldStates /\ h.text = f.text /\ h.from = f.from /\ h.to = f.to
  /\ h.area = f.area /\ h.prev = f.prev /\ h.marked = f.marked
  /\ h.focused = f.focused /\ h.forMenu = f.forMenu
  /\ h.composing = f.composing /\ h.composed = f.composed
  /\ h.readOnly = f.readOnly /\ h.meant = f.meant

\* Then it is as known as before.
LEMMA AreaStays ==
  ASSUME NEW f, NEW h, SameArea(h, f), f.menu # "pending",
         h.menu = f.menu \/ h.menu = "none", AreaKnown(f)
  PROVE  AreaKnown(h)
<1>1. (Selects(h) <=> Selects(f)) /\ (HasSelection(h) <=> HasSelection(f))
  BY DEF SameArea, Selects, HasSelection
<1>2. /\ WithSelection(f) => WithSelection(h)
      /\ MenuOpen(f) => MenuOpen(h)
      /\ LineCopied(f) => LineCopied(h)
      /\ PastedOver(f) => PastedOver(h)
  BY <1>1 DEF SameArea, WithSelection, MenuOpen, LineCopied, PastedOver
<1>3. AsSeen(f) => AsSeen(h)
  BY DEF SameArea, AsSeen
<1> QED BY <1>1, <1>2, <1>3 DEF SameArea, AreaKnown

\* The timer that looks for what was done from the menu.
LEMMA DetectKeeps ==
  ASSUME Shape(field), field.focused => field.timer # "off", Detect
  PROVE  Kept(field')
<1> PICK f : f = field
  OBVIOUS
<1> PICK h : h = field'
  OBVIOUS
<1>1. /\ Shape(f) /\ f.menu = "shown" /\ Loose(f) /\ f.text = f.meant
      /\ f \in FieldStates /\ (f.focused => f.timer # "off")
      /\ h = IF f.forMenu /\ Unnoticed(f)
             THEN [Selecting(f, 0, Len(f.text)) EXCEPT !.menu = "none"]
             ELSE [Reset(f, FALSE) EXCEPT !.menu = "none", !.composing = FALSE, !.composed = 0]
  BY DEF Detect, Shape, Loose
<1>2. CASE f.forMenu /\ Unnoticed(f)
  <2> PICK to : to = Len(f.text)
    OBVIOUS
  <2> PICK g : g = Selecting(f, 0, to)
    OBVIOUS
  <2>1. NowSelects(g, f, 0, to)
    <3>1. to \in Nat /\ 0 <= to /\ to <= Len(f.text) /\ 0 \in Nat
      BY <1>1, LenProperties DEF FieldStates
    <3> QED BY ONLY <1>1, <3>1, g = Selecting(f, 0, to), SelectingIs
  <2>2. /\ Loose(g) /\ g.text = g.meant /\ g.menu = "shown" /\ g.focused = f.focused
        /\ g.composing = f.composing
        /\ g.timer = f.timer /\ g.readOnly = f.readOnly /\ ~g.forMenu
        /\ ~f.composing => AreaKnown(g)
    BY ONLY <1>1, <2>1 DEF NowSelects
  <2>3. g \in FieldStates
    BY <2>2 DEF Loose
  <2>4. SameArea(h, g) /\ h.menu = "none" /\ h.timer = g.timer
    <3>1. h = [g EXCEPT !.menu = "none"]
      BY <1>1, <1>2
    <3> QED BY ONLY <2>3, <3>1 DEF SameArea, FieldStates
  <2>5. Loose(h) /\ h.text = h.meant
    BY ONLY <2>2, <2>4 DEF SameArea, Loose
  <2>6. ASSUME ~f.readOnly PROVE AreaKnown(h)
    <3>1. ~f.composing
      BY <1>1, <1>2, <2>6 DEF Shape
    <3> QED BY <2>2, <2>4, <3>1, AreaStays
  <2>7. Shape(h)
    <3>1. h.readOnly = f.readOnly /\ ~h.forMenu
      BY ONLY <2>2, <2>4 DEF SameArea
    <3> QED BY <2>5, <2>6, <3>1 DEF Shape
  <2>8. h.focused = f.focused
    BY <2>2, <2>4 DEF SameArea
  <2>9. h.focused => h.timer # "off"
    BY ONLY <1>1, <2>2, <2>4, <2>8
  <2>10. Kept(h)
    BY ONLY <2>7, <2>9 DEF Kept
  <2> QED BY <2>10
<1>3. CASE ~(f.forMenu /\ Unnoticed(f))
  <2> PICK g : g = Reset(f, FALSE)
    OBVIOUS
  <2>1. WasReset(g, f)
    BY <1>1, ResetIs DEF Loose
  <2>2. Loose(g) /\ SameOffArea(g, f)
    BY <1>1, <2>1, ResetLoose DEF WasReset
  <2>3. /\ g \in FieldStates /\ g.text = f.text /\ g.from = f.from /\ g.to = f.to
        /\ g.focused = f.focused /\ g.timer = f.timer /\ g.readOnly = f.readOnly
        /\ g.meant = f.meant
    BY <2>2 DEF SameOffArea
  <2>4. /\ h \in FieldStates /\ h.text = g.text /\ h.from = g.from /\ h.to = g.to
        /\ h.area = g.area /\ h.prev = g.prev /\ h.marked = g.marked
        /\ h.focused = g.focused /\ h.forMenu = g.forMenu /\ h.menu = "none"
        /\ ~h.composing /\ h.composed = 0 /\ h.timer = g.timer
        /\ h.readOnly = g.readOnly /\ h.meant = g.meant
    <3>1. h = [g EXCEPT !.menu = "none", !.composing = FALSE, !.composed = 0]
      BY <1>1, <1>3
    <3> QED BY ONLY <2>3, <3>1 DEF FieldStates
  <2>5. Loose(h) /\ h.text = h.meant
    BY ONLY <1>1, <2>2, <2>3, <2>4 DEF Loose
  <2>6. AreaKnown(h)
    <3>1. (Selects(h) <=> Selects(f)) /\ h.from \in Nat
      <4>1. h.from = f.from /\ h.to = f.to /\ h \in FieldStates
        BY ONLY <2>3, <2>4
      <4>2. h.from \in Nat
        BY ONLY <4>1 DEF FieldStates
      <4> QED BY ONLY <4>1, <4>2 DEF Selects
    <3>2. CASE Selects(f)
      <4>1. h.area # <<>> /\ h.prev = <<>> /\ h.marked = IF f.focused THEN "all" ELSE "none"
        <5>1. f.menu # "pending"
          BY <1>1
        <5> QED BY ONLY <2>1, <2>4, <3>2, <5>1 DEF WasReset
      <4>2. WithSelection(h)
        BY <2>3, <2>4, <4>1 DEF WithSelection, HasSelection
      <4> QED BY <3>1, <3>2, <4>2 DEF AreaKnown
    <3>3. CASE ~Selects(f)
      <4>1. h.area = <<>> /\ h.prev = <<>> /\ h.marked = "none"
        BY <1>1, <2>1, <2>4, <3>3 DEF WasReset, InArea
      <4>2. h.menu = "none" /\ h.composed = 0 /\ h.from \in Nat
        BY ONLY <2>4, <3>1
      <4>3. AsSeen(h)
        BY ONLY <4>1, <4>2 DEF AsSeen
      <4> QED BY <3>1, <3>3, <4>3 DEF AreaKnown
    <3> QED BY <3>2, <3>3
  <2>7. ~h.composing /\ h.focused = f.focused /\ h.timer = f.timer
    BY ONLY <2>3, <2>4
  <2>8. Shape(h)
    BY ONLY <2>5, <2>6, <2>7 DEF Shape
  <2>9. f.focused => f.timer # "off"
    BY <1>1
  <2>10. Kept(h)
    BY ONLY <2>7, <2>8, <2>9 DEF Kept
  <2> QED BY <2>10
<1> QED BY <1>2, <1>3

\* The timer that reads the area: there was nothing new in it.
LEMMA TimerKeeps ==
  ASSUME Shape(field), field.focused => field.timer # "off", Timer
  PROVE  Kept(field')
<1> PICK f : f = field
  OBVIOUS
<1> PICK h : h = field'
  OBVIOUS
<1>1. Shape(f) /\ f.timer # "off" /\ f \in FieldStates /\ h = TimedOut(f)
  BY DEF Timer, Shape, Loose
<1>2. Poll(f) = f
  BY <1>1, PollRests
<1>3. f.timer \in {"slow", "fast", "missed"}
  BY <1>1 DEF FieldStates
<1>4. \E t \in {"off", "slow", "missed"} :
         (f.focused => t # "off") /\ h = [f EXCEPT !.timer = t]
  <2>1. CASE f.timer = "slow"
    <3>1. h = [f EXCEPT !.timer = IF f.focused THEN "slow" ELSE "off"]
      BY ONLY <1>1, <1>2, <2>1 DEF TimedOut
    <3> QED BY <3>1
  <2>2. CASE f.timer = "fast"
    <3>1. h = [f EXCEPT !.timer = "missed"]
      BY ONLY <1>1, <1>2, <2>2 DEF TimedOut
    <3> QED BY <3>1
  <2>3. CASE f.timer = "missed"
    <3>1. h = [f EXCEPT !.timer = "slow"]
      BY ONLY <1>1, <1>2, <2>3 DEF TimedOut
    <3> QED BY <3>1
  <2> QED BY <1>3, <2>1, <2>2, <2>3
<1>5. PICK t \in {"off", "slow", "missed"} :
         (f.focused => t # "off") /\ h = [f EXCEPT !.timer = t]
  BY <1>4
<1>6. SameArea(h, f) /\ h.menu = f.menu /\ h.timer = t
  BY ONLY <1>1, <1>5, t \in {"off", "slow", "missed"} DEF SameArea, FieldStates
<1>7. Loose(h) /\ h.text = h.meant
  BY <1>1, <1>6 DEF Shape, Loose, SameArea
<1>8. ASSUME ~f.readOnly PROVE AreaKnown(h)
  <2>1. CASE f.menu = "pending"
    BY <1>6, <2>1 DEF AreaKnown
  <2>2. CASE f.menu # "pending"
    <3>1. AreaKnown(f)
      BY <1>1, <1>8 DEF Shape
    <3> QED BY <1>6, <2>2, <3>1, AreaStays
  <2> QED BY <2>1, <2>2
<1>9. Shape(h)
  <2>1. h.readOnly = f.readOnly /\ h.forMenu = f.forMenu /\ h.composing = f.composing
    BY <1>6 DEF SameArea
  <2> QED BY <1>1, <1>7, <1>8, <2>1 DEF Shape
<1> QED BY <1>5, <1>6, <1>9 DEF SameArea, Kept

-----------------------------------------------------------------------------
\* A field as a page begins with.
LEMMA EmptyFieldsKept ==
  ASSUME NEW f \in EmptyFields
  PROVE  Kept(f)
<1> PICK none : none = <<>>
  OBVIOUS
<1>0. /\ none \in Seq(Written) /\ none \in Seq(AreaKey) /\ Len(none) = 0
      /\ NotCopied \in [lineWise : BOOLEAN, text : Seq(Written)]
  BY EmptySeq DEF NotCopied
<1>1. /\ f.text = none /\ f.from = 0 /\ f.to = 0 /\ f.menu = "none" /\ ~f.focused
      /\ ~f.composing /\ f.composed = 0 /\ f.meant = none /\ ~f.forMenu /\ f.marked = "none"
  BY DEF EmptyFields
<1> PICK copied : copied = NotCopied
  OBVIOUS
<1>2. f \in FieldStates
  <2>1. f \in [text : {none}, from : {0}, to : {0}, area : {none}, marked : {"none"},
                prev : {none}, focused : {FALSE}, composing : {FALSE}, composed : {0},
                menu : {"none"}, forMenu : {FALSE}, copied : {copied}, timer : {"off"},
                readOnly : BOOLEAN, meant : {none}, astray : {FALSE}]
    BY DEF EmptyFields
  <2>2. copied \in [lineWise : BOOLEAN, text : Seq(Written)]
    BY <1>0
  <2> PICK fixed : fixed = f.readOnly
    OBVIOUS
  <2>3. /\ fixed \in BOOLEAN
        /\ f = [text |-> none, from |-> 0, to |-> 0, area |-> none, marked |-> "none",
                prev |-> none, focused |-> FALSE, composing |-> FALSE, composed |-> 0,
                menu |-> "none", forMenu |-> FALSE, copied |-> copied, timer |-> "off",
                readOnly |-> fixed, meant |-> none, astray |-> FALSE]
    BY ONLY <2>1, fixed = f.readOnly
  <2>4. none \in Seq(Written) /\ none \in Seq(AreaKey)
    BY <1>0
  <2> QED BY ONLY <2>2, <2>3, <2>4 DEF FieldStates
<1>3. Shape(f)
  BY <1>0, <1>1, <1>2 DEF Shape, Loose, AreaKnown
<1> QED BY <1>1, <1>3 DEF Kept

\* Every step keeps it.
LEMMA FieldInvKept ==
  ASSUME FieldInv, [FieldNext]_field
  PROVE  FieldInv'
<1> SUFFICES ASSUME FieldNext PROVE Kept(field')
  <2>1. CASE UNCHANGED field
    BY <2>1 DEF FieldInv, Kept, Shape
  <2>2. FieldInv' <=> Kept(field')
    BY DEF FieldInv, Kept
  <2> QED BY <2>1, <2>2
<1>1. CASE LeavePage
  BY <1>1, EmptyFieldsKept DEF LeavePage
<1>2. CASE ~LeavePage
  <2>0. /\ Shape(field) /\ ~field.astray /\ (field.focused => field.timer # "off")
        /\ field.copied.text \in Seq(Written) /\ Len(field.text) \in Nat
    <3>1. ~field.astray
      BY <1>2 DEF FieldNext
    <3>2. Shape(field)
      BY <3>1 DEF FieldInv, Kept
    <3> QED BY <3>1, <3>2, LenProperties DEF FieldInv, Kept, Shape, Loose, FieldStates
  <2>1. ASSUME NEW key \in Key, PressKey(key) PROVE Kept(field')
    BY <2>0, <2>1, PressKeyKeeps
  <2>2. ASSUME NEW keys \in ComposedTexts, Compose(keys) PROVE Kept(field')
    <3>1. keys \in Seq(Key)
      <4> PICK none : none = <<>>
        OBVIOUS
      <4>1. none \in Seq(Key)
        BY EmptySeq
      <4>2. ASSUME NEW j \in Key PROVE <<j>> \in Seq(Key)
        OBVIOUS
      <4>3. ASSUME NEW j \in Key, NEW k \in Key PROVE <<j, k>> \in Seq(Key)
        OBVIOUS
      <4>4. \/ keys = none
            \/ \E j \in Key : keys = <<j>>
            \/ \E j \in Key, k \in Key : keys = <<j, k>>
        BY DEF ComposedTexts
      <4> QED BY <4>1, <4>2, <4>3, <4>4
    <3> QED BY <2>0, <2>2, <3>1, ComposeKeeps
  <2>3. CASE StopComposing
    BY <2>0, <2>3, StopComposingKeeps
  <2>4. ASSUME NEW text \in PasteTexts, Paste(text) PROVE Kept(field')
    <3>1. text \in Seq(Written)
      <4>1. Key \subseteq Written /\ LineEnd \in Written
        BY DEF Written
      <4> PICK one : one = <<LineEnd>>
        OBVIOUS
      <4>2. one \in Seq(Written)
        BY <4>1
      <4>3. ASSUME NEW key \in Key PROVE <<key>> \in Seq(Written)
        BY <4>1
      <4>4. text = one \/ (\E key \in Key : text = <<key>>) \/ text = field.copied.text
        BY DEF PasteTexts
      <4> QED BY <2>0, <4>2, <4>3, <4>4
    <3> QED BY <2>0, <2>4, <3>1, PasteKeeps
  <2>5. CASE CopyText
    BY <2>0, <2>5, CopyTextKeeps
  <2>6. CASE CutText
    BY <2>0, <2>6, CutTextKeeps
  <2>7. CASE PressBackspace \/ PressEnter
    BY <2>0, <2>7, BoundKeysKeep
  <2>8. ASSUME NEW from \in 0..Len(field.text), NEW to \in 0..Len(field.text),
               from <= to, SelectText(from, to)
        PROVE  Kept(field')
    <3>1. from \in Nat /\ to \in Nat /\ to <= Len(field.text)
      BY <2>0
    <3> QED BY <2>0, <2>8, <3>1, SelectTextKeeps
  <2>9. CASE BlurField
    BY <2>0, <2>9, BlurFieldKeeps
  <2>10. CASE FocusField
    BY <2>0, <2>10, FocusFieldKeeps
  <2>11. ASSUME NEW at \in 0..Len(field.text), ContextMenu(at) PROVE Kept(field')
    BY <2>0, <2>11, ContextMenuKeeps
  <2>12. CASE Rehide
    BY <2>0, <2>12, RehideKeeps
  <2>13. CASE MenuSelectsAll
    BY <2>0, <2>13, MenuSelectsAllKeeps
  <2>14. CASE MenuDeletes
    BY <2>0, <2>14, MenuDeletesKeeps
  <2>15. ASSUME NEW text \in {<<>>, <<LineEnd>>}, MenuUndoes(text) PROVE Kept(field')
    <3>1. text \in Seq(Written)
      <4> PICK none : none = <<>>
        OBVIOUS
      <4> PICK one : one = <<LineEnd>>
        OBVIOUS
      <4>1. LineEnd \in Written
        BY DEF Written
      <4>2. none \in Seq(Written) /\ one \in Seq(Written)
        BY <4>1, EmptySeq
      <4> QED BY <4>2
    <3> QED BY <2>0, <2>15, <3>1, MenuUndoesKeeps
  <2>16. CASE Detect
    BY <2>0, <2>16, DetectKeeps
  <2>17. CASE Timer
    BY <2>0, <2>17, TimerKeeps
  <2> QED BY ONLY FieldNext, <1>2, <2>1, <2>2, <2>3, <2>4, <2>5, <2>6, <2>7, <2>8, <2>9, <2>10,
                  <2>11, <2>12, <2>13, <2>14, <2>15, <2>16, <2>17 DEF FieldNext
<1> QED BY <1>1, <1>2

(***************************************************************************)
(* Whatever is typed, composed, pasted, cut, deleted or undone in the      *)
(* area, in whatever order with menus, selections, focus and timers, the   *)
(* document is at once what was meant, unless it goes astray in one of the *)
(* two ways known; and an editor with the focus has a timer set to read    *)
(* the area (poll, reset, applyTextInput, onContextMenu, rehide).          *)
(***************************************************************************)
THEOREM TypedAlwaysOnce == FieldSpec => []TypedOnce
<1>1. FieldInit => FieldInv
  BY EmptyFieldsKept DEF FieldInit, FieldInv
<1>2. FieldInv /\ [FieldNext]_field => FieldInv'
  BY FieldInvKept
<1>3. FieldInv => TypedOnce
  BY DEF FieldInv, Kept, Shape, TypedOnce
<1> QED BY <1>1, <1>2, <1>3, PTL DEF FieldSpec

=============================================================================
