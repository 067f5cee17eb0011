------------------------------ MODULE MCPageLoad ------------------------------
(***************************************************************************)
(* Instances of PageLoad: documents that have a script on either side of a *)
(* sheet, of a picture and of a deferred script, with their text in them   *)
(* or not, and one that may not reach its own script.                      *)
(***************************************************************************)
EXTENDS PageLoad

MCShapes ==
    {<<>>, <<"sheet", "inline", "script", "image">>, <<"defer", "script", "sheet", "inline", "script">>,
     <<"script", "defer", "barred", "image">>, <<"sheet", "sheet", "script", "inline", "defer">>}
=============================================================================
