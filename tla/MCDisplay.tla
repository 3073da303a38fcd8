------------------------------ MODULE MCDisplay ------------------------------
(* Terminal on a screen of six cells, and its properties.                   *)
EXTENDS Terminal

MCMoves == {<<1, 0>>, <<-1, -2>>}

\* Program output of whole characters and of bytes that are none.
MCTexts == {<<"a">>, <<"nl">>, <<"cr">>, <<"bs">>, <<"tab", "tab">>, <<"a", "a">>, <<"bs", "a">>,
            <<"lead3", "follow", "follow">>, <<"lead2">>, <<"long2", "follow">>,
            <<"follow">>, <<"bad", "nl">>}
=============================================================================
