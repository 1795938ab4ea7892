------------------------------ MODULE NameMaps ------------------------------
(***************************************************************************)
(* The JavaScript Maps from a name to a line that both require-send checks *)
(* keep per scope.  A Map is the function of its names.                    *)
(***************************************************************************)

\* map.set(x, v)
With(map, x, v) == [y \in DOMAIN map \cup {x} |-> IF y = x THEN v ELSE map[y]]

\* map.delete(x)
Forget(map, x) == [y \in DOMAIN map \ {x} |-> map[y]]
=============================================================================
