------------------------------ MODULE MCStartup ------------------------------
(***************************************************************************)
(* Startup for TLC: lines that do everything a line can, with arguments    *)
(* that are plain, empty or full of special characters; files that fail at *)
(* each step, are not fingerprints, or have too few samples.               *)
(***************************************************************************)
EXTENDS Startup

MCCharacters == STRING
MCDirectives == {<<>>, <<"#">>, <<"uplink">>, <<"soundinfile">>,
                 <<"sound">>, <<"soundc">>, <<"nothing">>, <<"exp">>}
MCValues == {<<"both">>, <<"json">>, <<>>,
             <<"a", Space, Quote, Backslash, "n", Newline, Escapes.t, Escapes.a>>}

MCDirs == {<<"fingerprints">>, <<"unfiltered", "/">>}
MCFiles == << [name |-> <<".", "a", ".raw">>, fails |-> "nothing", samples |-> 3],
              [name |-> <<"a", ".raw">>, fails |-> "nothing", samples |-> 1],
              [name |-> <<"b", ".raw">>, fails |-> "open", samples |-> 3],
              [name |-> <<"c", ".raw">>, fails |-> "stat", samples |-> 3],
              [name |-> <<"d", ".raw">>, fails |-> "read", samples |-> 3],
              [name |-> <<"e", ".raw">>, fails |-> "nothing", samples |-> 0],
              [name |-> <<"f", ".raw", ".raw">>, fails |-> "nothing", samples |-> 3],
              [name |-> <<"unfiltered", "h", ".raw">>, fails |-> "nothing", samples |-> 3] >>
==============================================================================
