---------------------------- MODULE QueryResults ----------------------------
(***************************************************************************)
(* What the query page does with answers (msg.js).  A click on the query   *)
(* button clears the log and sends the text of the editor.  The answer     *)
(* goes to the log; that of a query that succeeded brings messages, which  *)
(* are given to a table, and every answer calls for the table of the       *)
(* queries of the past.                                                    *)
(*                                                                         *)
(* Both tables are made with "retrieve": a table that is there is returned *)
(* as it is, whatever it is given.                                         *)
(***************************************************************************)
EXTENDS Integers, FiniteSets

CONSTANT
  MaxQueries  \* bound: queries sent before the page is loaded anew

ASSUME QueriesAssumption == MaxQueries \in Nat

VARIABLES
  newest,    \* the number of the last query sent
  running,   \* the queries that are not answered
  log,       \* the query whose answer is in the log, and how it went
  messages,  \* the query whose messages are in the table
  listed,    \* how many queries had been answered when the past was listed
  answers,   \* history: the queries answered
  succeeded, \* history: those that succeeded
  overtaken  \* history: an answer came to a query that was not the newest

queryVars ==
  <<newest, running, log, messages, listed, answers, succeeded, overtaken>>

NoQuery == 0
Cleared == [of |-> NoQuery, went |-> "unknown"]

QueriesInit ==
  /\ newest = NoQuery /\ running = {} /\ log = Cleared /\ messages = NoQuery
  /\ listed = 0 /\ answers = {} /\ succeeded = {} /\ overtaken = FALSE

\* Mutant: the log keeps its text.
QueryClickKeeping ==
  /\ newest < MaxQueries
  /\ newest' = newest + 1 /\ running' = running \cup {newest + 1}
  /\ UNCHANGED <<log, messages, listed, answers, succeeded, overtaken>>

ClickQuery ==
  /\ newest < MaxQueries
  /\ newest' = newest + 1 /\ running' = running \cup {newest + 1}
  /\ log' = Cleared
  /\ UNCHANGED <<messages, listed, answers, succeeded, overtaken>>

\* displayTopicMessage and displayTopicSqlHistory
DisplayTopicMessage(n) == IF messages = NoQuery THEN n ELSE messages
DisplayTopicSqlHistory == IF listed = 0 THEN Cardinality(answers) + 1 ELSE listed

QueryAnswered(n, went) ==
  /\ running' = running \ {n} /\ log' = [of |-> n, went |-> went]
  /\ messages' = IF went = "ok" THEN DisplayTopicMessage(n) ELSE messages
  /\ listed' = DisplayTopicSqlHistory
  /\ answers' = answers \cup {n}
  /\ succeeded' = IF went = "ok" THEN succeeded \cup {n} ELSE succeeded
  /\ overtaken' = (overtaken \/ n # newest)
  /\ UNCHANGED newest

\* A request that fails, or an answer that is no JSON: nothing is done.
QueryLost(n) ==
  /\ running' = running \ {n}
  /\ UNCHANGED <<newest, log, messages, listed, answers, succeeded, overtaken>>

Reload ==
  /\ newest = MaxQueries
  /\ newest' = NoQuery /\ running' = {} /\ log' = Cleared /\ messages' = NoQuery
  /\ listed' = 0 /\ answers' = {} /\ succeeded' = {} /\ overtaken' = FALSE

QueriesNext ==
  \/ ClickQuery \/ Reload
  \/ \E n \in running : QueryLost(n) \/ \E went \in {"ok", "error"} : QueryAnswered(n, went)

QueriesSpec == QueriesInit /\ [][QueriesNext]_queryVars

(***************************************************************************)
(* What the log says is of the query sent last, unless one was sent while  *)
(* another was running; and if it says that the query succeeded, then the  *)
(* messages shown are those of this query, unless an earlier one had       *)
(* succeeded on the same page: its messages are never replaced.            *)
(***************************************************************************)
LogAndMessagesAgree ==
  /\ overtaken \/ log.of \in {NoQuery, newest}
  /\ log.went = "ok" /\ messages # log.of => \E n \in succeeded : n # log.of
=============================================================================
