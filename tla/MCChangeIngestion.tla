------------------------- MODULE MCChangeIngestion -------------------------
(* Documents with up to two endpoints, one with a segment that is the name *)
(* of a method and one with a segment that begins with "deprecated", and   *)
(* operations that differ in what the classification looks at, in true and *)
(* 1, or in nothing but how their keys are nested; a document without      *)
(* paths; repositories with three names for one file, a file at the root,  *)
(* a path that leaves the root and paths that begin with backslashes.      *)
EXTENDS ChangeIngestion, TLC

Pay == <<"", "v1", "pay">>
Opt == <<"", "v1", "Options", "x">>
Old == <<"", "v1", "deprecated-plans">>
Get == <<"get">>
Empty == Object(<<>>)

Operations ==
  {Empty} \cup
  {Object(<<"deprecated">> :> Scalar("true"))} \cup
  {Object(<<"requestBody">> :> v) : v \in {Scalar("x"), None,
                                          Object(<<"options">> :> Scalar("x"))}} \cup
  {Object(<<"parameters">> :> List(v)) : v \in {"true", "1"}} \cup
  {Object(<<"x", "y">> :> None), Object(<<"x">> :> Object(<<"y">> :> None))}

Items == {Object(Get :> op) : op \in Operations} \cup {Object(<<"summary">> :> Scalar("x"))}

MCDocuments ==
  {Object(<<"info">> :> Scalar("x"))} \cup
  {Object(<<"paths">> :> Object(f)) :
     f \in {Pay :> item : item \in Items}
                 \cup {Old :> Object(Get :> op) : op \in {Empty, Object(<<"x">> :> Scalar("true"))}}
                 \cup {Pay :> Object(Get :> Empty) @@ Opt :> Object(Get :> op) :
                         op \in {Empty, Object(<<"requestBody">> :> Scalar("x"))}}}

RECURSIVE Parts(_), DepthOf(_)
Parts(v) ==
  {v} \cup IF IsObject(v) THEN UNION {Parts(v.fields[k]) : k \in DOMAIN v.fields} ELSE {}
DepthOf(v) ==
  IF IsObject(v) THEN Max({0} \cup {1 + DepthOf(v.fields[k]) : k \in DOMAIN v.fields})
  ELSE 0
MCValues == {None} \cup UNION {Parts(d) : d \in MCDocuments}
MCDepth == [v \in MCValues |-> DepthOf(v)]
MCPlain == [v \in MCValues |-> IF v = List("true") THEN List("1") ELSE v]
MCLowered == "Options" :> "options"
MCLonger == [t \in Tokens |-> CASE t = "deprecated" -> {"deprecated-plans"}
                                [] t = "schema" -> {"schemas"}
                                [] OTHER -> {}]

Line(quotes, stripe, http) == [quotes |-> quotes, stripe |-> stripe, http |-> http]
File(path, ext, imports, lines) ==
  [path |-> path, ext |-> ext, imports |-> imports, lines |-> lines]

MCRepositories ==
  { << File(<<"src", "b.ts">>, "js", FALSE, <<Line({Opt}, FALSE, TRUE), Line({Pay}, FALSE, TRUE)>>),
       File(<<"src", "a.ts">>, "js", FALSE, <<Line({Pay}, FALSE, TRUE)>>),
       File(<<"README.md">>, "other", FALSE, <<Line({Pay}, FALSE, FALSE)>>) >>,
    << File(<<".", "src", "a.ts">>, "js", TRUE, <<Line({}, TRUE, FALSE), Line({Opt}, FALSE, TRUE)>>),
       File(<<"lib", "..", "src", "a.ts">>, "js", TRUE, <<Line({Pay}, FALSE, FALSE)>>),
       File(<<"src\\a.ts">>, "js", FALSE, <<Line({Pay}, FALSE, FALSE)>>) >>,
    << File(<<"\\..\\etc", "a.ts">>, "js", FALSE, <<Line({Pay}, FALSE, FALSE)>>),
       File(<<"etc", "a.ts">>, "js", FALSE, <<Line({Pay}, FALSE, TRUE)>>) >>,
    << File(<<"src", "A.TS">>, "upper", TRUE, <<Line({Pay}, FALSE, TRUE)>>),
       File(<<"index.ts">>, "js", FALSE, <<Line({Pay}, FALSE, FALSE)>>),
       File(<<"lib", "..", "..", "x.ts">>, "js", FALSE, <<Line({Opt}, FALSE, TRUE)>>) >> }

MCPathOrder ==
  << <<".", "src", "a.ts">>, <<"", "etc", "a.ts">>, <<"README.md">>,
     <<"\\..\\etc", "a.ts">>,
     <<"etc", "a.ts">>, <<"index.ts">>,
     <<"lib", "..", "..", "x.ts">>, <<"lib", "..", "src", "a.ts">>,
     <<"src", "A.TS">>, <<"src", "a.ts">>, <<"src", "b.ts">>, <<"src\\a.ts">> >>
MCPieces ==
  "\\..\\etc" :> <<"", "..", "etc">> @@ "src\\a.ts" :> <<"src", "a.ts">>
MCGlobLists == {{<<"src", "a.ts">>, <<"etc", "a.ts">>, <<"", "etc", "a.ts">>}}
=============================================================================
