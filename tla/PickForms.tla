----------------------------- MODULE PickForms -----------------------------
(***************************************************************************)
(* The forms whose values are picked from select boxes: alarm rules and    *)
(* their changes, alarm groups, a topic's settings, a test message.  A box *)
(* asks the server for what fits the text typed into it and numbers each   *)
(* answer from 1; what is picked becomes an option of the box with this    *)
(* number, and a hidden input gets its text, which is what is submitted.   *)
(*                                                                         *)
(* Select2 does not add an option whose number the box already has: it     *)
(* shows the text that this option had when it was added.                  *)
(***************************************************************************)
EXTENDS Sequences, SequencesExt

CONSTANT
  Lists   \* box -> the lists of texts the server may answer

VARIABLES
  sheet,     \* the form of this page
  options,   \* box -> the texts of its options, by number
  label,     \* box -> the text it shows
  hidden,    \* box -> what its hidden input holds
  topicsOf,  \* the consumer group the topic box asks for, and the topic is of
  filled,    \* the text fields that are not empty
  mode,      \* the radio button that is checked
  reused,    \* history: boxes that show another text than was picked
  submitted  \* whether the server has just been sent the form

pickVars ==
  <<sheet, options, label, hidden, topicsOf, filled, mode, reused, submitted>>

Empty == ""
Form(name, has, fields) == [name |-> name, boxes |-> has, fields |-> fields]
CreateForm == Form("create", {"type", "level", "maxtimes", "group"},
                   {"server", "topic text", "producer"})
AddForm == Form("add", {"consumer group", "topic", "level", "maxtimes", "group"},
                {"lag"})
ConfigForm == Form("config", {"type of group"}, {"name", "url", "address", "msg"})
ManagerForm == Form("manager", {"topic", "key"}, {"value"})
MockForm == Form("mock", {"topic"}, {"content"})
ConsumerForm == Form("modify", {"level", "maxtimes", "group"}, {"lag"})
ClusterForm == Form("history", {"level", "maxtimes", "group"}, {"server"})
Boxes == sheet.boxes

\* What of the form can be seen.
TypeShows(t) ==
  CASE t = "Topic" -> {"topic text"} [] t = "Producer" -> {"producer"}
    [] OTHER -> {"server"}
Shown ==
  CASE sheet = CreateForm -> TypeShows(hidden["type"])
    [] sheet = ConfigForm -> {"name", "url", "msg"} \cup
         (IF hidden["type of group"] \in {"Email", "WebHook"} THEN {"address"} ELSE {})
    [] sheet = ManagerForm -> IF mode = "add_config" THEN {"value"} ELSE {}
    [] OTHER -> sheet.fields
ShownBoxes == IF mode = "desc_config" THEN Boxes \ {"key"} ELSE Boxes

NewPage ==
  /\ options' = [b \in Boxes |-> <<>>]
  /\ label' = [b \in Boxes |-> Empty] /\ hidden' = [b \in Boxes |-> Empty]
  /\ topicsOf' = [box |-> Empty, topic |-> Empty]
  /\ filled' = {} /\ mode' = "add_config" /\ reused' = {} /\ submitted' = FALSE
PicksInit ==
  /\ sheet \in {CreateForm, AddForm, ConfigForm, ManagerForm, MockForm,
                ConsumerForm, ClusterForm}
  /\ options = [b \in Boxes |-> <<>>]
  /\ label = [b \in Boxes |-> Empty] /\ hidden = [b \in Boxes |-> Empty]
  /\ topicsOf = [box |-> Empty, topic |-> Empty]
  /\ filled = {} /\ mode = "add_config" /\ reused = {} /\ submitted = FALSE

-----------------------------------------------------------------------------
(* Select2: the option picked, and what the box shows then. *)

\* Options are kept as <<number, text>> in the order they were added.
Numbered(b, i) == SelectSeq(options[b], LAMBDA o : o[1] = i)
Added(b, i, text) ==
  IF Numbered(b, i) = <<>> THEN Append(options[b], <<i, text>>) ELSE options[b]
Read(b, i, text) == IF Numbered(b, i) = <<>> THEN text ELSE Numbered(b, i)[1][2]

\* The topics offered are those of the group the box was made for.
Offers(b) == sheet = AddForm /\ b = "topic" => topicsOf.box # Empty

\* Mutant: the hidden input takes what the box shows from then on.
TakeOnce(b, text) == IF hidden[b] = Empty THEN text ELSE hidden[b]

Take(b, text) == text

\* A pick.  Picking a consumer group puts a new box in the place of the topic
\* box and leaves the hidden topic alone.
Pick(b, i, text) ==
  /\ ~submitted /\ b \in ShownBoxes /\ Offers(b)
  /\ LET rebuilt == sheet = AddForm /\ b = "consumer group"
         added == [options EXCEPT ![b] = Added(b, i, text)]
         read == [label EXCEPT ![b] = Read(b, i, text)]
     IN  /\ options' = IF rebuilt THEN [added EXCEPT !["topic"] = <<>>] ELSE added
         /\ label' = IF rebuilt THEN [read EXCEPT !["topic"] = Empty] ELSE read
         /\ topicsOf' = IF rebuilt THEN [topicsOf EXCEPT !.box = text]
                        ELSE IF b = "topic" THEN [topicsOf EXCEPT !.topic = topicsOf.box]
                        ELSE topicsOf
         /\ reused' = (IF Read(b, i, text) = text THEN reused \ {b} ELSE reused \cup {b})
                        \ (IF rebuilt THEN {"topic"} ELSE {})
  /\ hidden' = [hidden EXCEPT ![b] = Take(b, text)]
  /\ UNCHANGED <<sheet, filled, mode, submitted>>

TypeInto(f) ==
  /\ ~submitted /\ f \in Shown
  /\ filled' \in {filled \cup {f}, filled \ {f}}
  /\ UNCHANGED <<sheet, options, label, hidden, topicsOf, mode, reused, submitted>>

Radio(m) ==
  /\ ~submitted /\ sheet = ManagerForm /\ mode' = m
  /\ UNCHANGED <<sheet, options, label, hidden, topicsOf, filled, reused, submitted>>

-----------------------------------------------------------------------------
(* Submitting, after the checks of the page. *)

Complete(has, fields) == Empty \notin {hidden[b] : b \in has} /\ fields \subseteq filled
Sent == submitted' = TRUE /\ UNCHANGED <<sheet, options, label, hidden, topicsOf,
                                          filled, mode, reused>>

CreateRule == sheet = CreateForm /\ Complete(Boxes, TypeShows(hidden["type"])) /\ Sent
AddRule == sheet = AddForm /\ Complete(Boxes, {"lag"}) /\ Sent
AddGroup == sheet = ConfigForm /\ Complete(Boxes, {"name", "url"}) /\ Sent
TestGroup == sheet = ConfigForm /\ Complete(Boxes, {"url", "msg"}) /\ Sent
AlterTopic ==
  /\ sheet = ManagerForm
  /\ CASE mode = "add_config" -> Complete({"topic", "key"}, {"value"})
       [] mode = "del_config" -> Complete({"topic", "key"}, {})
       [] OTHER -> Complete({"topic"}, {})
  /\ Sent
MockMessage == sheet = MockForm /\ Complete(Boxes, {"content"}) /\ Sent
ModifyConsumerRule == sheet = ConsumerForm /\ Complete(Boxes, {"lag"}) /\ Sent
ModifyClusterRule == sheet = ClusterForm /\ Complete(Boxes, {"server"}) /\ Sent

Submits == CreateRule \/ AddRule \/ AddGroup \/ TestGroup \/ AlterTopic
           \/ MockMessage \/ ModifyConsumerRule \/ ModifyClusterRule

\* The answer.  A test, settings and a message leave the page as it is; a rule
\* or a group loads another.
Answered ==
  /\ submitted
  /\ \/ /\ sheet \in {ConfigForm, ManagerForm, MockForm} /\ submitted' = FALSE
        /\ UNCHANGED <<sheet, options, label, hidden, topicsOf, filled, mode, reused>>
     \/ /\ sheet \in {CreateForm, AddForm, ConfigForm, ConsumerForm, ClusterForm}
        /\ NewPage /\ UNCHANGED sheet

PicksNext ==
  \/ \E b \in Boxes : \E list \in Lists[b] : \E i \in DOMAIN list : Pick(b, i, list[i])
  \/ \E f \in sheet.fields : TypeInto(f)
  \/ \E m \in {"add_config", "del_config", "desc_config"} : Radio(m)
  \/ ~submitted /\ Submits
  \/ Answered

PicksSpec == PicksInit /\ [][PicksNext]_pickVars

-----------------------------------------------------------------------------
\* The text the server takes as the value of a new rule, a Topic rule's
\* included, whose own text is overwritten.
StoredUnder == IF hidden["type"] = "Producer" THEN "producer" ELSE "server"

(***************************************************************************)
(* What is sent is what can be read: every box shows the text of its       *)
(* hidden input, unless it shows an older one of the same number; a topic  *)
(* that is sent is of the consumer group sent with it, unless the topic    *)
(* box is empty; and the value stored of a new rule is not empty and can   *)
(* be seen, unless it is a Topic rule.                                     *)
(***************************************************************************)
FormAsShown ==
  /\ \A b \in Boxes \ reused :
       label[b] = hidden[b] \/ (sheet = AddForm /\ b = "topic" /\ label[b] = Empty)
  /\ sheet = AddForm /\ label["topic"] # Empty =>
       topicsOf.topic = hidden["consumer group"]
  /\ sheet = CreateForm /\ submitted /\ hidden["type"] # "Topic" =>
       StoredUnder \in filled \cap Shown
=============================================================================
