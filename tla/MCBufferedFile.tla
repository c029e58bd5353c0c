--------------------------- MODULE MCBufferedFile ---------------------------
(***************************************************************************)
(* Buffers of two bytes, which tokio takes one by one, over files of at    *)
(* most five, so that "\r\n" and numbers fall across refills and writes    *)
(* overflow the buffer.                                                    *)
(***************************************************************************)
EXTENDS BufferedFile

Contents == {<<"D", "R", "N", "D">>}
Written == {<<"D">>, <<"N", "D">>, <<"D", "D", "D">>}
=============================================================================
