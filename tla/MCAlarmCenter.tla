--------------------------- MODULE MCAlarmCenter ---------------------------
(* Two rules of the alarm centre, of the kinds a configuration chooses.      *)
EXTENDS AlarmCenter, TLC

CONSTANTS r1, r2

ConsumerAndServer == r1 :> "Consumer" @@ r2 :> "Server"
TopicAndServer == r1 :> "Topic" @@ r2 :> "Server"
OneServer == r1 :> "Server"
Unlimited == {NoLimit}
OneOrTwo == {1, 2}
=============================================================================
