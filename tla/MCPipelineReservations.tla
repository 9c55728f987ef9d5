----------------------- MODULE MCPipelineReservations -----------------------
(* Values for TLC. A task is a number; a cast says what each of them does. *)
EXTENDS PipelineReservations

CONSTANTS w1, w2

TwoWorkers == {w1, w2}

ThreeTasks == 1 .. 3

(* The tasks with even numbers run in the worker that may die. *)
Alternating == [t \in Tasks |-> IF t % 2 = 1 THEN w1 ELSE w2]

(* Any two kinds of request, and two of one kind, meet in a cast; only custom  *)
(* insertions and reprocessings are left to HandoverCasts. Two kinds that are  *)
(* no disturbance (Disturbed) meet in a cast without one, and every kind is    *)
(* somewhere the second task.                                                  *)
MixedCasts ==
    {<<"upload", "upload", "custom">>, <<"upload", "insert", "delete">>,
     <<"upload", "scan", "reprocess">>, <<"upload", "scan", "delete">>,
     <<"upload", "clear", "insert">>, <<"upload", "clear", "deleteOne">>,
     <<"insert", "insert", "reprocess">>, <<"insert", "custom", "scan">>,
     <<"insert", "custom", "custom">>, <<"reprocess", "insert", "reprocess">>,
     <<"scan", "delete", "scan">>, <<"scan", "custom", "clear">>,
     <<"scan", "custom", "deleteOne">>, <<"clear", "reprocess", "clear">>,
     <<"clear", "reprocess", "delete">>, <<"clear", "delete", "deleteOne">>,
     <<"delete", "custom", "delete">>, <<"deleteOne", "insert", "deleteOne">>,
     <<"deleteOne", "deleteOne", "reprocess">>}

HandoverCasts == {<<"upload", "custom", "reprocess">>}
=============================================================================
