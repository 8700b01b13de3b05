--------------------------- MODULE MCSummaryPager ---------------------------
(* The orders of MCOrderSummary in two terminals that are wide enough and  *)
(* in one whose panes do not get their width.                              *)
EXTENDS SummaryPager, MCOrderSummary

MCSizes == {[width |-> 80, height |-> 3], [width |-> 60, height |-> 6],
            [width |-> 52, height |-> 4]}
=============================================================================
