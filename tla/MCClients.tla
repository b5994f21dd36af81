----------------------------- MODULE MCClients ------------------------------
(* The instances of Clients that TLC checks: no setting, a cap on texts    *)
(* and on their length, and caps that a text can exceed alone.             *)
EXTENDS Clients

MCLimits == {
  [items |-> 0, tokens |-> 0, chars |-> 0],
  [items |-> 1, tokens |-> 0, chars |-> 16],
  [items |-> 3, tokens |-> 5, chars |-> 0]}

=============================================================================
