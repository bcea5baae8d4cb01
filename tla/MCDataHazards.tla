---------------------------- MODULE MCDataHazards ----------------------------
(***************************************************************************)
(* The circular logic that the comment on PartFixDataHazards describes.     *)
(***************************************************************************)
EXTENDS DataHazards

MCLogic == 1 .. 4
MCCost == [l \in MCLogic |-> CASE l = 1 -> 2 [] l = 2 -> 1 [] l = 3 -> 3 [] l = 4 -> 1]
MCVars == {"a", "b"}
Forward == {e \in MCLogic \X MCLogic : e[1] < e[2]}

\* assign b = b | a << 2; assign out = b; with the edge from the first to the
\* second cut (weight 0).
CircularDesigns == {[deps |-> D,
                     writes |-> [l \in MCLogic |-> CASE l = 1 -> {"b"} [] l = 2 -> {"a"} [] OTHER -> {}],
                     reads |-> [l \in MCLogic |-> CASE l = 1 -> {"b"} [] l = 3 -> {"b"} [] OTHER -> {}],
                     dpi |-> {}] :
                      D \in SUBSET Forward}
=============================================================================
