--------------------------- MODULE MC_ListenAddrs ---------------------------
(***************************************************************************)
(* Property values for get_listen_addrs: empty, valid ports, the bounds    *)
(* 0 and 65536, a leading blank and a sign (which %d accepts), a trailing *)
(* letter (a numeric prefix), letters only, and 2^32 + 5555 and its        *)
(* negation, which are outside int.                                        *)
(***************************************************************************)
EXTENDS ListenAddrs

CONSTANTS spec1, spec2

MC_PortStrings ==
    { <<>>, <<"5", "5", "5", "5">>, <<"1", "2", "3", "4">>, <<"0">>, <<"6", "5", "5", "3", "6">>,
      <<" ", "+", "4", "2">>, <<"8", "0", "x">>, <<"x">>,
      <<"4", "2", "9", "4", "9", "7", "2", "8", "5", "1">>, <<"-", "4", "2", "9", "4", "9", "6", "1", "7", "4", "1">> }

\* "", "a", "a,b" and "a,,b" as Split segments (an empty segment is kept).
MC_ListenProps == { <<>>, <<spec1>>, <<spec1, spec2>>, <<spec1, "", spec2>> }

MC_BindSpecs == {spec1, spec2, ""}
=============================================================================
