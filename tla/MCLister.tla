------------------------------- MODULE MCLister -------------------------------
(***************************************************************************)
(* Values of the constants of Lister: two folders, one of them with two    *)
(* keys, and a file of the same name as a folder.                          *)
(***************************************************************************)
EXTENDS Lister

Paths == {<<1>>, <<1, 1>>, <<1, 2>>, <<2, 1>>}

Afters == {<<>>, <<1>>, <<1, Slash>>}

Queries ==
  [prefix : {<<>>}, after : Afters, limit : 0 .. 2]
    \cup [prefix : {<<1>>}, after : {<<>>, <<1>>}, limit : 0 .. 1]
=============================================================================
