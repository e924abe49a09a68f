------------------------ MODULE MCRemediationStages ------------------------
(* Two files and patches that match once, several times, that overlap      *)
(* themselves, whose new text brings the old one back, that delete, or     *)
(* that leave the root.                                                    *)
EXTENDS RemediationStages, TLC

CONSTANTS f, g, outside

Patch(path, old, new) == [tool |-> "apply_patch", path |-> path, old |-> old, new |-> new]

MCDirectives ==
  { Patch(f, <<"a">>, <<"b">>), Patch(f, <<"a">>, <<"c", "a">>),
    Patch(f, <<"a", "a">>, <<"b">>), Patch(f, <<"a", "b">>, <<>>),
    Patch(g, <<"b">>, <<"a">>), Patch(outside, <<"a">>, <<"b">>),
    [tool |-> "read_file", path |-> f], [tool |-> "search_code"],
    [tool |-> "run_shell"] }

MCCommands == <<"lint", "test">>

MCCheckouts ==
  {(f :> text) @@ (g :> <<"b">>) : text \in {<<"a">>, <<"a", "a", "a">>, <<"a", "a", "b", "b">>}}
=============================================================================
