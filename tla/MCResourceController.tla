------------------------- MODULE MCResourceController -------------------------
(***************************************************************************)
(* Values of the constants of ResourceController for TLC.  The period of a *)
(* fresh group is 4 and BwUnit is 12, so that runtimes 1..4 are shares     *)
(* 3, 6, 9, 12 and a budget of 9 (75 %) refuses runtime 4.                 *)
(***************************************************************************)
EXTENDS ControllerReservation

CONSTANTS h1, h2, c1, c2, k1, k2

Request(c, k, p, v, only) ==
    [container |-> c, core |-> k, period |-> p, runtime |-> v, only |-> only]

\* One client: every order of normal and escalation requests, with and without
\* a core, shorter and longer periods (8 is above the root's 6), runtimes that
\* exceed the period, exceed the budget, are zero, and are negative; and a second
\* container that is to have the same core.
AloneRequests ==
    [h \in {h1} |->
        [container : {c1}, core : {k1, AnyCore}, period : {2, 4, 6, 8},
         runtime : {-1, 1, 2, 4}, only : BOOLEAN]
        \cup {Request(c2, k1, 4, 2, FALSE)}]

\* Two clients, a core each, in two containers of the pod, with the one period.
\* The first escalates or makes normal requests, one of them above the budget;
\* the second makes normal requests.  Each can raise and lower its runtime.
CoreRequests ==
    [h \in {h1, h2} |->
        IF h = h1 THEN { Request(c1, k1, 4, 1, TRUE),  Request(c1, k1, 4, 2, TRUE),
                         Request(c1, k1, 4, 2, FALSE), Request(c1, k1, 4, 4, FALSE) }
                  ELSE { Request(c2, k2, 4, 1, FALSE), Request(c2, k2, 4, 2, FALSE) }]

\* Two clients that update the same container, for different cores and with
\* different periods.
OverlapRequests ==
    [h \in {h1, h2} |-> {IF h = h1 THEN Request(c1, k1, 4, 1, FALSE)
                                   ELSE Request(c1, k2, 6, 1, FALSE)}]

\* A request of the unlimited runtime, after a limited one.
UnlimitedRequests == [h \in {h1} |-> {Request(c1, k1, 4, -1, FALSE)}]

\* The first settings of a fresh container, with a period below the default.
FirstRequests == [h \in {h1} |-> {Request(c1, AnyCore, 2, 1, FALSE)}]
================================================================================
