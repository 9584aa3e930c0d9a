------------------------------ MODULE RowLinks ------------------------------
(***************************************************************************)
(* The dialogs that confirm what is to be done with a row: a link in the   *)
(* row opens one, and the dialog has a link of its own that does it, whose *)
(* address is put together by the page.  Most addresses are complete as    *)
(* soon as the dialog is open.  Removing a topic takes a token and adding  *)
(* partitions takes a number: the address is made anew, from the topic in  *)
(* a variable of the page, whenever the text in the dialog changes.        *)
(*                                                                         *)
(* The topic list has three such dialogs, with one variable for the topic  *)
(* of two of them, and two links with the id ke_del_topic.                 *)
(***************************************************************************)
CONSTANTS
  LinkRow, \* topics, rules, groups or clusters
  Tokens,  \* texts the user may type where a token is asked for
  Counts,  \* texts the user may type where a number is asked for
  Numerals \* those that match /^[1-9]\d*$/

ASSUME LinksAssumption ==
  /\ "" \in Tokens \cap Counts
  /\ Numerals \subseteq Counts \ {""}

VARIABLES
  list,    \* the page: which rows it lists
  asking,  \* the dialog that is open
  subject, \* the row it was opened for
  topic,   \* the page's variable
  typed,   \* dialog -> what its text field holds; closing clears nothing
  link     \* dialog -> the link in it

linkVars == <<list, asking, subject, topic, typed, link>>

Dialogs == {"remove", "modify", "clean"}
NoDialog == "no dialog"
NoSubject == "no row"
NoLink == [href |-> "none", row |-> NoSubject, text |-> ""]
Bare == [NoLink EXCEPT !.href = "#"]
To(r, text) == [href |-> "to", row |-> r, text |-> text]

FreshDialogs ==
  /\ asking' = NoDialog /\ subject' = NoSubject /\ topic' = NoSubject
  /\ typed' = [d \in Dialogs |-> ""] /\ link' = [d \in Dialogs |-> NoLink]
LinksInit ==
  /\ list \in {"topics", "export", "clusters", "consumer rules",
               "cluster rules", "alarm groups"}
  /\ asking = NoDialog /\ subject = NoSubject /\ topic = NoSubject
  /\ typed = [d \in Dialogs |-> ""] /\ link = [d \in Dialogs |-> NoLink]

-----------------------------------------------------------------------------
(* Opening a dialog: it is modal, with a static backdrop. *)

Open(d, r, made) ==
  /\ asking = NoDialog /\ asking' = d /\ subject' = r
  /\ link' = [link EXCEPT ![d] = made]
  /\ UNCHANGED <<list, typed>>

\* A token typed for an earlier topic is still in the field.  The list's new
\* link is bare all the same; the export page's is complete at once.
RemoveTopic(r) == list = "topics" /\ Open("remove", r, Bare) /\ topic' = r
RemoveExport(r) ==
  /\ list = "export" /\ topic' = r
  /\ Open("remove", r, IF typed["remove"] = "" THEN Bare ELSE To(r, typed["remove"]))

\* Mutant: the dialog keeps the link it had.
ModifyTopicKeeping(r) ==
  list = "topics" /\ Open("modify", r, link["modify"]) /\ topic' = r

ModifyTopic(r) == list = "topics" /\ Open("modify", r, Bare) /\ topic' = r

\* The handler has a variable topic of its own.
CleanTopic(r) == list = "topics" /\ Open("clean", r, To(r, "")) /\ UNCHANGED topic

ChangeCluster(r) == list = "clusters" /\ Open("remove", r, To(r, "")) /\ UNCHANGED topic
RemoveConsumerRule(r) ==
  list = "consumer rules" /\ Open("remove", r, To(r, "")) /\ UNCHANGED topic
RemoveClusterRule(r) ==
  list = "cluster rules" /\ Open("remove", r, To(r, "")) /\ UNCHANGED topic
RemoveAlarmGroup(r) ==
  list = "alarm groups" /\ Open("remove", r, To(r, "")) /\ UNCHANGED topic

-----------------------------------------------------------------------------
(* Typing, closing and following. *)

\* $("#ke_del_topic") is the first link with this id in the document, and the
\* remove dialog comes before the clean dialog.
DelTopic == IF link["remove"] # NoLink THEN "remove" ELSE "clean"

TypeToken(t) ==
  /\ asking = "remove" /\ list \in {"topics", "export"}
  /\ typed' = [typed EXCEPT !["remove"] = t]
  /\ link' = [link EXCEPT ![DelTopic] = IF t = "" THEN Bare ELSE To(topic, t)]
  /\ UNCHANGED <<list, asking, subject, topic>>

TypeCount(t) ==
  /\ asking = "modify"
  /\ typed' = [typed EXCEPT !["modify"] = t]
  /\ link' = [link EXCEPT !["modify"] = IF t \in Numerals THEN To(topic, t) ELSE Bare]
  /\ UNCHANGED <<list, asking, subject, topic>>

Dismiss ==
  /\ asking # NoDialog /\ asking' = NoDialog
  /\ UNCHANGED <<list, subject, topic, typed, link>>

\* The server does what the address says and the page is loaded anew.
Follow == asking # NoDialog /\ link[asking].href = "to" /\ FreshDialogs /\ UNCHANGED list

LinksNext ==
  \/ \E r \in LinkRow : \/ RemoveTopic(r) \/ RemoveExport(r) \/ ModifyTopic(r)
                    \/ CleanTopic(r) \/ ChangeCluster(r) \/ RemoveConsumerRule(r)
                    \/ RemoveClusterRule(r) \/ RemoveAlarmGroup(r)
  \/ \E t \in Tokens : TypeToken(t)
  \/ \E t \in Counts : TypeCount(t)
  \/ Dismiss \/ Follow

LinksSpec == LinksInit /\ [][LinksNext]_linkVars

(***************************************************************************)
(* The link of the open dialog does nothing, or it is for the row the      *)
(* dialog was opened for, with the text that can be read in it: whatever   *)
(* rows and dialogs were opened, typed into and dismissed before.  No      *)
(* number of partitions is sent that is not one.                           *)
(***************************************************************************)
LinkNamesOpenRow ==
  asking # NoDialog =>
    /\ link[asking] \in {Bare, To(subject, typed[asking])}
    /\ asking = "modify" /\ link[asking] # Bare => typed["modify"] \in Numerals
=============================================================================
