------------------------------ MODULE MCConsole ------------------------------
EXTENDS Console

\* The picker: 31 August, a Saturday, and 1 September 2019; day 0 is Monday,
\* 1 July.
MCPicks == {61, 62}
MCRanges == [Today |-> <<62, 62>>, Yesterday |-> <<61, 61>>]
MCOpening == "Today"
MCMonths == 1..2
MCFirstOfMonth == [m \in 0..4 |-> <<0, 31, 62, 92, 123>>[m + 1]]

\* All trees of n nodes on three levels, the most the server answers.  The wide
\* trees are those in which branches that are not neighbours would meet: with one
\* between them that ends early, with two, and with the left one not the first.
RECURSIVE TreesOf(_)
TreesOf(n) ==
  IF n = 1 THEN {<<0>>}
  ELSE UNION {{Append(q, m) : m \in {1, IF q[n - 1] \in {0, 1} THEN n - 1
                                        ELSE q[n - 1]}} : q \in TreesOf(n - 1)}
WideTrees ==
  {<<0, 1, 2, 2, 1, 1, 6>>, <<0, 1, 1, 3, 3, 1, 1, 7, 7>>,
   <<0, 1, 2, 2, 2, 1, 1, 1, 8, 8>>}
MCShapes == WideTrees \cup UNION {TreesOf(n) : n \in 1..6}
MCOverlap == [n \in 1..10 |-> IF n = 2 THEN 4 ELSE IF n = 3 THEN 2 ELSE 1]

\* One user has a role to begin with.
MCGranted == [r \in BoxRow |-> IF r = CHOOSE x \in BoxRow : TRUE
                               THEN {CHOOSE b \in Box : TRUE} ELSE {}]

\* Two texts where it matters which, one where it does not.
MCLists ==
  LET pair(a, b) == {<<a, b>>, <<b>>}
  IN  [b \in {"level", "maxtimes", "group", "key"} |-> {<<"a">>}]
      @@ ("type" :> {<<"Topic", "Producer", "Zookeeper">>, <<"Producer">>,
                     <<"Zookeeper">>})
      @@ ("type of group" :> {<<"Email", "DingDing">>, <<"DingDing">>})
      @@ ("consumer group" :> pair("a", "b")) @@ ("topic" :> pair("a", "b"))

\* in, is and insert, abridged
MCKeywords == <<<<"i", "n">>, <<"i", "s">>, <<"i", "n", "s">>>>

\* A comment is opened, a comment is ended.
MCSqlLines == {<<"/", "*">>, <<"*", "/">>}
=============================================================================
