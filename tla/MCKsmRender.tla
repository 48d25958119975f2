------------------------------ MODULE MCKsmRender ------------------------------
(***************************************************************************)
(* A small instance of KsmRender for TLC: every kind of image reference,   *)
(* and ConfigMaps whose values hold newlines, or what looks like the line  *)
(* of another key, at the end, in the middle and without its newline.      *)
(***************************************************************************)
EXTENDS KsmRender

NoSelector == <<>>
Windows == [os |-> "windows"]
Pinned == [arch |-> "arm64"]

Default == [ref |-> [port |-> FALSE, tag |-> "v2.17.0", digest |-> FALSE],
            args |-> <<>>, nodeSelector |-> NoSelector]

SomeWorkloads ==
  {[Default EXCEPT !.ref = ref] : ref \in ImageRefs}
  \cup {[Default EXCEPT !.args = args] :
         args \in {<<"--resources=pods">>, <<"--config=own", "--v=4">>}}
  \cup {[Default EXCEPT !.nodeSelector = ns] : ns \in {Windows, Pinned}}

Values == {<<"v">>, <<"w">>, <<"v", "\n">>, <<"v", OtherKey, "=", "w">>,
           <<"v", "\n", OtherKey, "=", "w">>}

ValuesOf(key) == CASE key = StdKey   -> Values
                   [] key = CRSKey   -> {<<"v">>}
                   [] key = OtherKey -> {<<"v">>, <<"w">>}

(* Each key is missing or has one of its values.                           *)
SomeConfigs ==
  UNION {{data \in [keys -> Values] : \A key \in keys : data[key] \in ValuesOf(key)} :
         keys \in SUBSET {StdKey, CRSKey, OtherKey}}
===============================================================================
