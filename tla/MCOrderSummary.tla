--------------------------- MODULE MCOrderSummary --------------------------
(* Two orders and their identifiers: an order is entered, replaced under a *)
(* new ClOrdID, executed, cancelled by reference only, restated late; an   *)
(* acknowledgement settles an order and another takes it back.             *)
EXTENDS OrderSummary

CONSTANTS O1, C1, C2, X1

MCIds == {O1, C1, C2, X1}

Plain == [type |-> "8", admin |-> FALSE, order_id |-> None, cl_ord_id |-> None,
          orig |-> None, time |-> None, ord_status |-> None, exec_type |-> None,
          exec_ack |-> None, leaves_zero |-> FALSE]

Enter   == [Plain EXCEPT !.type = "D", !.cl_ord_id = C1, !.time = 1]
Replace == [Plain EXCEPT !.type = "G", !.cl_ord_id = C2, !.orig = C1, !.time = 3]
Ack     == [Plain EXCEPT !.order_id = O1, !.cl_ord_id = C1, !.ord_status = "New", !.time = 2]
Fill    == [Plain EXCEPT !.order_id = O1, !.exec_type = "Partially Filled", !.leaves_zero = TRUE,
                         !.ord_status = "Filled", !.time = 4]
Cancel  == [Plain EXCEPT !.orig = C2, !.exec_type = "Canceled"]
Settled == [Plain EXCEPT !.type = "BN", !.order_id = X1, !.exec_ack = "1", !.time = 2]
Doubted == [Plain EXCEPT !.type = "BN", !.order_id = X1, !.exec_ack = "2", !.time = 5]
Logon   == [Plain EXCEPT !.type = "A", !.admin = TRUE, !.cl_ord_id = C1]
Closed  == [Plain EXCEPT !.type = None, !.cl_ord_id = C2, !.leaves_zero = TRUE]

MCMessages == {Enter, Replace, Ack, Fill, Cancel, Settled, Doubted, Logon, Closed}

(* An order known by its OrderID and by its ClOrdID before a message names *)
(* both.                                                                   *)
Status == [Plain EXCEPT !.order_id = O1, !.exec_type = "New", !.time = 2]
SplitMessages == {Status, Enter, Ack}
MCMsgTypes == {"8", "D", "G", "BN", "A"}
=============================================================================
