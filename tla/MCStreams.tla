------------------------------ MODULE MCStreams -----------------------------
(* Streams for TLC: an id, one nested in it, one that only begins with it,  *)
(* and one whose name is that of a ref of the first.                       *)
EXTENDS Streams

MCSlash == "/"
MCCode  == "code"
MCExtra == "extra"
MCChars == {"a", "b", MCSlash, MCCode, MCExtra}

MCStreams == {<<"a">>, <<"a", "/", "b">>, <<"a", "b">>, <<"a", "/", "code">>}
=============================================================================
