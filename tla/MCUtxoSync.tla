----------------------------- MODULE MCUtxoSync -----------------------------
(***************************************************************************)
(*      g --- 1 --- 2 --- 3 --- 4                                          *)
(*                   \--- c --- d --- e                                    *)
(***************************************************************************)
EXTENDS UtxoSync

Tree == {"g", "1", "2", "3", "4", "c", "d", "e"}
TreeParent == [b \in Tree \ {"g"} |->
  CASE b = "1" -> "g" [] b = "2" -> "1" [] b = "3" -> "2" [] b = "4" -> "3"
    [] b = "c" -> "2" [] b = "d" -> "c" [] b = "e" -> "d"]
=============================================================================
