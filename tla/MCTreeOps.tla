----------------------------- MODULE MCTreeOps -----------------------------
(* A directory a with a file, and in a subdirectory a link to a and a link *)
(* to the directory g, and a second name z of the file; targets without a, *)
(* with a directory a, with a file a, inside the source, and its own.      *)
EXTENDS TreeOps, TLC

MCDirs == { << >>, <<"a">>, <<"a", "s">>, <<"d">>, <<"d", "a">>, <<"e">>, <<"g">> }
MCFiles == { <<"a", "x">>, <<"a", "s", "k">>, <<"a", "s", "l">>, <<"z">>,
             <<"e", "a">>, <<"g", "f">> }
MCTagged == << <<"a">>, <<"z">> >>
MCTargets == { <<"d">>, <<"e">>, <<"g">>, <<"a", "s">>, << >> }
MCNewFiles == { <<"a", "s", "n">> }
MCHard == <<"z">> :> <<"a", "x">>
MCLinks == <<"a", "s", "l">> :> <<"a">> @@ <<"a", "s", "k">> :> <<"g">>
=============================================================================
