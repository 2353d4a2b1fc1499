---------------------------- MODULE MCTagReader ----------------------------
(***************************************************************************)
(* Instances of TagReader: real telegrams of two tags, one of which has    *)
(* extra data, and two upsets.                                             *)
(***************************************************************************)
EXTENDS TagReader

(* Number 2^37 + 5 of country 858, an animal's tag, without extra data.    *)
Plain == {0, 2, 37} \cup {38 + k : k \in {1, 3, 4, 6, 8, 9}} \cup {63}

(* Number 2^8 of country 999 with extra data, nearly all zeros.  The first *)
(* bytes of number and extra data are 0: a piece of such a telegram may be *)
(* taken for the beginning of one (Parser.cpp:23-40).                      *)
Nasty == {8} \cup {38 + k : k \in {0, 1, 2, 5, 6, 7, 8, 9}} \cup {DATA, 96}

TwoTags == {Plain, Nasty}
=============================================================================
