------------------------------ MODULE MCReplay ------------------------------
(* The rounds TLC lets the model make: results of both sizes, fixed        *)
(* replies, and an answer before, after or beside another call.            *)
EXTENDS Replay

MCCallLists == {
  <<>>, <<"tool">>, <<"badSubmit">>,
  <<"tool", "tool">>,
  <<"submit", "toolError">>, <<"tool", "submit">>}

=============================================================================
