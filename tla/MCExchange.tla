----------------------------- MODULE MCExchange -----------------------------
(* Instances of Exchange: cells k, l and m are secret, x is not. *)
EXTENDS Exchange

CONSTANTS k, l, m, x

MCAllowlist == {<<m>>}

\* The shortest digests of <<k>> and <<l>> collide.
MCLadder ==
  [s \in {<<k>>, <<l>>, <<m>>, <<k, l>>, <<l, x>>} |->
     CASE s = <<k>> -> <<"p", "pk">>
       [] s = <<l>> -> <<"p", "pl">>
       [] s = <<m>> -> <<"pm">>
       [] OTHER     -> <<"pkl">>]

Clean(text) ==
  [path |-> "vendor", coded |-> FALSE, over |-> FALSE, declares |-> TRUE,
   walks |-> TRUE, blocks |-> FALSE, text |-> text, spans |-> {}]
Secret1(text, spans) == [Clean(text) EXCEPT !.spans = spans]
At1 == [from |-> 1, to |-> 1]
At2 == [from |-> 2, to |-> 2]
Both == [from |-> 1, to |-> 2]

Redacted ==
  {Secret1(<<k>>, {At1}), Secret1(<<l, m>>, {At1, At2})}

Refused ==
  {[Clean(<<x>>) EXCEPT !.path = "unknown"], [Clean(<<x>>) EXCEPT !.path = "models"],
   [Clean(<<x>>) EXCEPT !.coded = TRUE], [Clean(<<x>>) EXCEPT !.over = TRUE],
   [Clean(<<x>>) EXCEPT !.walks = FALSE], [Clean(<<x>>) EXCEPT !.blocks = TRUE],
   [Clean(<<x>>) EXCEPT !.blocks = TRUE, !.declares = FALSE]}

\* Not declared as JSON: one that is not JSON, one that is.
Plain == {[Clean(<<x>>) EXCEPT !.declares = FALSE, !.walks = FALSE],
          [Secret1(<<l>>, {At1}) EXCEPT !.declares = FALSE]}

Overlapping == {Secret1(<<k, l>>, {At1, Both})}

AllBodies      == Redacted \cup Refused \cup Plain
LeakBodies     == Redacted \cup Overlapping

Doc(walks, blocks) == [json |-> TRUE, walks |-> walks, blocks |-> blocks]
Ping == [json |-> FALSE, walks |-> FALSE, blocks |-> FALSE]
Res(events) == [coding |-> "none", sse |-> FALSE, over |-> FALSE, events |-> events]

AllReplies ==
  {Res(<<Doc(TRUE, FALSE)>>),
   [Res(<<Doc(TRUE, TRUE)>>) EXCEPT !.coding = "gzip"],
   [Res(<<Doc(TRUE, FALSE)>>) EXCEPT !.coding = "other", !.over = TRUE],
   [Res(<<Doc(TRUE, FALSE), Doc(FALSE, FALSE), Ping>>) EXCEPT !.sse = TRUE]}

=============================================================================
