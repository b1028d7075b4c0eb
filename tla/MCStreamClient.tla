---------------------------- MODULE MCStreamClient ----------------------------
(***************************************************************************)
(* Small instances of StreamClient, with the samples that bench makes of   *)
(* its results (BenchRequest) and the report that ping api prints of them  *)
(* (PingReport). One status per class the code tells apart; chunks with no *)
(* choice, with text, with reasoning only, and with three choices of which *)
(* one is empty.                                                           *)
(***************************************************************************)
EXTENDS BenchRequest, PingReport

D(c, r) == [content |-> c, reasoning |-> r]

MCStatuses == {200, 302, 404, 503}
MCText     == {"a", "b"}
MCChunks   == { <<>>,
                <<D("a", NoText)>>,
                <<D(NoText, "b")>>,
                <<D("a", "b"), D(NoText, NoText), D("b", NoText)>> }

(* A server that is down: it refuses connections or answers 503. *)
MCDown     == {503}
MCNoChunks == {}
===============================================================================
