--------------------------- MODULE MCConfigScript ---------------------------
(***************************************************************************)
(* Comments that read like arguments, separators, shell comments and       *)
(* quotes; host names that are missing, shared, or look like numbers.      *)
(***************************************************************************)
EXTENDS ConfigScript

MCWord == STRING

MCComments ==
  {<<>>, <<"home">>, <<"#1">>, <<"home", "port", "81", ";", "it's">>, <<"home", "uid", "2">>}

MCUidFiles ==
  {<<<<"1", "alice">>, <<"x", "bob">>, <<"1", "carol">>>>,
   <<<<"1", "2">>, <<"2", "2">>>>}

TwoWords == {<<"home", "office">>}
NoFile == {<<>>}
=============================================================================
