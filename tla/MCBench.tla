-------------------------------- MODULE MCBench --------------------------------
(***************************************************************************)
(* Small instances of Bench: fewer, as many and more workers than requests,*)
(* and arguments that are rejected.                                        *)
(***************************************************************************)
EXTENDS Bench

Sample(st, ft, tot, d, e) ==
  [status |-> st, firstToken |-> ft, total |-> tot, deltas |-> d, err |-> e]

MCOutcomes == { Sample(200, 1, 2, 2, NoError),
                Sample(200, 0, 1, 0, NoError),
                Sample(0, 0, 1, 0, <<"refused">>) }
===============================================================================
