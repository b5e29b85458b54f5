--------------------------- MODULE MCClassLoader ---------------------------
(***************************************************************************)
(* Hierarchies of classes: a diamond, a cycle of two, a class whose file is *)
(* missing, one whose file is no class file, and one that competes with the *)
(* diamond for the memory.                                                  *)
(***************************************************************************)
EXTENDS ClassLoader

CONSTANTS Base, Left, Right, Both, Ring1, Ring2, Bad, Lost, Orphan, Other

File(supers, size) == [valid |-> TRUE, supers |-> supers, size |-> size]

Diamond(n) ==
  CASE n = Base  -> File(<<>>, 2)
    [] n = Left  -> File(<<Base>>, 1)
    [] n = Right -> File(<<Base>>, 2)
    [] n = Both  -> File(<<Left, Right>>, 1)

Broken(n) ==
  CASE n = Ring1  -> File(<<Base, Ring2>>, 1)
    [] n = Ring2  -> File(<<Ring1>>, 1)
    [] n = Bad    -> [valid |-> FALSE, supers |-> <<>>, size |-> 1]
    [] n = Other  -> File(<<>>, 1)
    [] n = Orphan -> File(<<Base, Lost, Bad>>, 1)

DiamondNames == {Base, Left, Right, Both}

AllFiles ==
  [n \in DiamondNames \cup {Ring1, Ring2, Bad, Orphan, Other} |->
     IF n \in DiamondNames THEN Diamond(n) ELSE Broken(n)]

AllNames == DOMAIN AllFiles \cup {Lost}
=============================================================================
