--------------------------- MODULE MCUpdateGates ---------------------------
(* Releases for TLC: 1.2.0, then 1.10.0, then 1.9.9 with a higher serial, one *)
(* that revokes itself, one of another platform, one of another channel and   *)
(* one whose version has no numbers.                                          *)
EXTENDS UpdateGates

Release(serial, version) ==
  [serial |-> serial, version |-> version, platform |-> "this", channel |-> "stable",
   withdrawn |-> FALSE]

MCParsed == [v \in {"1.2.0", "1.10.0", "1.9.9", "dev"} |->
  CASE v = "1.2.0" -> <<1, 2, 0>> [] v = "1.10.0" -> <<1, 10, 0>>
    [] v = "1.9.9" -> <<1, 9, 9>> [] OTHER -> <<>>]
MCFirst == Release(1, "1.2.0")
MCReleases ==
  {MCFirst, Release(2, "1.10.0"), Release(3, "1.9.9"), Release(2, "dev"),
   [Release(3, "1.10.0") EXCEPT !.withdrawn = TRUE],
   [Release(3, "1.10.0") EXCEPT !.platform = "other"],
   [Release(3, "1.10.0") EXCEPT !.channel = "beta"]}

Path(features) ==
  [f \in {"brewDir", "brewRoot", "scoopDir", "scoopRoot", "localBin"} |-> f \in features]
MCPaths ==
  {Path({"localBin"}), Path({}), Path({"brewDir"}), Path({"scoopDir", "localBin"}),
   Path({"brewRoot", "localBin"}), Path({"scoopRoot", "localBin"})}
=============================================================================
