---------------------------- MODULE MCWordFilters ----------------------------
(* Words that overlap, extend one another and hold what is skipped, and    *)
(* every text of up to four code points. (A code point of words that are   *)
(* not added yet is one that no word has.)                                 *)
EXTENDS WordFilters

Chars == {"a", "b", "-"}
MCWord == {<<"a">>, <<"b">>, <<"a", "b">>, <<"b", "a">>, <<"a", "b", "b">>, <<"b", "-", "a">>,
           <<"-", "b">>, <<"a", "-", "a", "b">>, <<"b", "a", "-", "a", "b">>}
MCText == UNION {[1 .. n -> Chars] : n \in 0 .. 4}
=============================================================================
