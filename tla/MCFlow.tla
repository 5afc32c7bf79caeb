------------------------------- MODULE MCFlow -------------------------------
(***************************************************************************)
(* Flow with one step that has a timeout and two troubles; two steps, the  *)
(* second after the first; a loop of one step that runs once, for which    *)
(* two records are enough, as an iteration that was cancelled is replaced; *)
(* and, without trouble, a loop with a timeout that runs twice.            *)
(***************************************************************************)
EXTENDS Flow

OneStep == [Blank EXCEPT !.deps = <<{}>>, !.deadline = <<0>>, !.timeout = <<1>>]
TwoSteps == [Blank EXCEPT !.deps = <<{}, {1}>>, !.deadline = <<0, 0>>, !.timeout = <<1, 0>>]
Loop(max, timeout) ==
    [Blank EXCEPT !.deps = <<{}>>, !.deadline = <<0>>, !.timeout = <<timeout>>,
                  !.interval = 1, !.max = max]

MCIds == 1..3
MCScenarios == {Scenario(OneStep, 1, 2), Scenario(TwoSteps, 1, 1),
                Scenario(Loop(1, 0), 2, 1), Scenario(Loop(2, 1), 3, 0)}

(* a loop with a timeout that runs twice, and nothing that fails *)
MCTimedLoop == {Scenario(Loop(2, 1), 3, 0)}

(* two steps, and one call that fails *)
MCFailedCall == {Scenario(TwoSteps, 1, 1)}
=============================================================================
