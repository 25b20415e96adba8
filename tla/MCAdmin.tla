------------------------------ MODULE MCAdmin ------------------------------
(***************************************************************************)
(* The web administration with two threads for TLC.                        *)
(***************************************************************************)
EXTENDS Admin

MCAmount == {-1, 1}

MCMixes ==
    {{"modify", "event", "delete"}, {"send", "equip", "delete"}, {"shopSave", "shopDelete"}}
=============================================================================
