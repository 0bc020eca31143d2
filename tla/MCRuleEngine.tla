---------------------------- MODULE MCRuleEngine ----------------------------
(* Instances of RuleEngine. "addr" and "sk" are what two detectors find,     *)
(* "corp" is what rules look for, "Corp" is the same word in another case.   *)
EXTENDS RuleEngine

MCFoldOf  == [Corp |-> "corp", corp |-> "corp", addr |-> "addr", sk |-> "sk", t |-> "t",
              Key |-> "key", key |-> "key"]
MCDetects == [email |-> {"addr"}, prefix |-> {"sk"}]
MCTable   == <<"prefix", "email">>
MCOrder   == [email |-> 1, p1 |-> 2, p2 |-> 3, prefix |-> 4, r1 |-> 5, r2 |-> 6]

-----------------------------------------------------------------------------
(* Documents. *)

Rule(id, type, finds, action) ==
  [id |-> id, type |-> type, finds |-> finds, cased |-> FALSE, scope |-> "absent",
   priority |-> 0, action |-> action, confidence |-> "absent", allow |-> {},
   replace |-> FALSE, suffixes |-> FALSE]

Pack(rules) ==
  [odd |-> FALSE, serial |-> "good", keyId |-> "good", schema |-> 1, off |-> {},
   dropped |-> {}, allow |-> {}, block |-> {}, rules |-> rules,
   sensitive |-> [present |-> FALSE, keys |-> {}, cased |-> FALSE]]

Plain == Pack(<<Rule("r1", "keyword", {"corp"}, "block")>>)

\* Sensitive keys, and allowlists of both kinds.
Gated ==
  [Pack(<<Rule("r2", "email", {}, "redact"),
          [Rule("r1", "keyword", {"corp"}, "redact") EXCEPT !.allow = {<<"t", "Corp">>}]>>)
     EXCEPT !.sensitive = [present |-> TRUE, keys |-> {"Key"}, cased |-> FALSE],
            !.allow = {<<"addr">>}]

\* A local document may have scopes, priorities and a blocklist.
Local ==
  [Pack(<<[Rule("r1", "regex", {"corp"}, "warn") EXCEPT !.scope = "both"],
          [Rule("r2", "regex", {"corp", "t"}, "block") EXCEPT !.scope = "response", !.priority = 50]>>)
     EXCEPT !.serial = "absent", !.keyId = "absent", !.block = {"sk"}]

Clash == Pack(<<Rule("email", "keyword", {"corp"}, "warn"), Rule("r1", "keyword", {"t"}, "warn")>>)
ClashGated == [Clash EXCEPT !.sensitive = [present |-> TRUE, keys |-> {"key"}, cased |-> TRUE]]

Commands2 == Pack(<<Rule("r1", "command", {}, "block"), Rule("r2", "prefix", {}, "warn")>>)

Rejected ==
  {[Plain EXCEPT !.odd = TRUE], [Plain EXCEPT !.keyId = "bad"],
   [Plain EXCEPT !.serial = "absent"], [Plain EXCEPT !.off = {"email"}],
   Pack(<<Rule("r1", "keyword", {"corp"}, "allow")>>),
   Pack(<<[Rule("r1", "email", {}, "redact") EXCEPT !.replace = TRUE]>>),
   Pack(<<Rule("r1", "keyword", {"corp"}, "warn"), Rule("r1", "keyword", {"t"}, "warn")>>),
   [Commands2 EXCEPT !.schema = 2],
   [Commands2 EXCEPT !.rules = Append(@, Rule("p1", "keyword", {"t"}, "warn"))],
   [Local EXCEPT !.rules = <<[@[1] EXCEPT !.action = "redact"]>>]}

MCDocuments == {Plain, Gated, Local, Clash, ClashGated, Commands2} \union Rejected

\* One allowed match in front of more matches than a scan goes through.
MCTruncating == {[Pack(<<Rule("r1", "keyword", {"corp"}, "redact")>>) EXCEPT !.allow = {<<"t", "corp">>}]}

-----------------------------------------------------------------------------
(* Third parties' rules. *)

Plugin(id, scope, action, finds, turn) ==
  [id |-> id, rank |-> 10, scope |-> scope, action |-> action, confidence |-> "good",
   nil |-> FALSE, finds |-> finds, allow |-> {}, capped |-> FALSE, turn |-> turn]

MCBatches ==
  {<<Plugin("p1", "both", "block", {"sk"}, "none"), Plugin("p2", "request", "redact", {"corp"}, "none")>>,
   <<Plugin("p1", "request", "redact", {"t"}, "both")>>,
   <<Plugin("p1", "request", "warn", {"t"}, "mask")>>,
   <<Plugin("p2", "both", "warn", {"t"}, "panic")>>,
   <<Plugin("p2", "request", "warn", {"t"}, "none"), Plugin("p1", "both", "redact", {"t"}, "none")>>,
   <<[Plugin("p2", "response", "warn", {"t"}, "none") EXCEPT !.nil = TRUE]>>}

-----------------------------------------------------------------------------
(* Bodies. *)

Root(value)        == [value |-> value, key |-> "t", member |-> FALSE]
Member(key, value) == [value |-> value, key |-> key, member |-> TRUE]

MCBodies ==
  {<<Root(<<"addr", "t", "Corp">>)>>, <<Root(<<"t", "corp">>), Root(<<"addr">>)>>,
   <<Member("Key", <<"addr">>)>>, <<Member("key", <<"addr", "sk">>), Root(<<"t">>)>>,
   <<Member("key", <<"t">>), Member("t", <<>>)>>, <<Root(<<"addr", "sk", "addr">>)>>,
   <<Root(<<"corp", "corp", "corp">>)>>}

MCLongBodies == {<<Root(<<"t", "corp", "corp", "corp", "corp">>)>>, <<Root(<<"corp", "t">>)>>}
=============================================================================
