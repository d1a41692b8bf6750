----------------------------- MODULE MCHttpParse ----------------------------
(* Values of the constants of HttpParse for TLC. *)
EXTENDS HttpParse

Other == <<"Host:", "h">>

MCRequests ==
    {[method |-> <<"G">>, path |-> <<"a">>, query |-> <<>>, lines |-> <<>>, body |-> <<>>],
     [method |-> <<"P", "U">>, path |-> <<"a", "b">>, query |-> <<"q">>,
      lines |-> <<Other, <<Length, "2">>>>, body |-> <<"x", "y">>],
     [method |-> <<"P">>, path |-> <<"c">>, query |-> <<>>,
      lines |-> <<<<Length, "3">>, Other>>, body |-> <<"x", SP, "z">>]}

MCResponses ==
    {[code |-> <<"2">>, reason |-> <<>>, lines |-> <<>>, body |-> <<>>],
     [code |-> <<"2", "0">>, reason |-> <<"O", SP, "K">>,
      lines |-> <<Other, <<Length, "3">>>>, body |-> <<"x", CR, "z">>],
     [code |-> <<"4">>, reason |-> <<"N">>, lines |-> <<<<Length, "0">>>>, body |-> <<>>]}

MCLetters ==
    {"G", "P", "U", "O", "K", "N", "a", "b", "c", "h", "q", "x", "y", "z",
     "0", "2", "3", "4", "1", "1.", "Host:"}

MCVersion == <<"1.", "1">>
=============================================================================
