-------------------------- MODULE MCBusinessTypes ---------------------------
(* Small instances of BusinessTypes for the model checker.                 *)
EXTENDS BusinessTypes

CONSTANTS milk, wine   \* products

(* Milk of a source of dairies, under no category; wine of a source        *)
(* without a known one, under a category that the resolver does not know,  *)
(* of two words, each of them an entry of the table of auto-match.         *)
SourceCategories2 == [p \in {milk, wine} |->
                        IF p = milk THEN "lacteos" ELSE "super_general"]
NoneResolved == [p \in {milk, wine} |-> {}]
Categories == [p \in {milk, wine} |->
                 IF p = milk THEN "" ELSE "vinos y quesos"]
TitleWords == [p \in {milk, wine} |->
                 IF p = milk THEN {"nivea"} ELSE {}]
Listed == <<"almacen", "fiambreria", "vinoteca">>
ByCode == {<<t, t>> : t \in {"almacen", "fiambreria", "vinoteca"}}
PutTypes == {<<"almacen">>, <<"almacen", "vinoteca">>,
             <<"vinoteca", "almacen">>}
Within == {<<"vinos y quesos", "vinos">>, <<"vinos y quesos", "quesos">>}
=============================================================================
