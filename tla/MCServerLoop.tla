---------------------------- MODULE MCServerLoop ----------------------------
(* Frames for the checks of ServerLoop.                                     *)
EXTENDS ServerLoop

Declares(n) == [name |-> "length", value |-> n]
ContentType == [name |-> "type"]
OtherHeader == [name |-> "unknown"]

\* The payload's size alone, after or before another header, corrected by a
\* second one; a size that is unreadable, missing, too small, too large for
\* the payload, too large for the buffer.
MCHeadings == {
    <<Declares(2)>>, <<ContentType, Declares(2)>>, <<Declares(1), Declares(2), OtherHeader>>,
    <<Declares(-1)>>, <<OtherHeader>>, <<ContentType, Declares(1)>>, <<Declares(3)>>, <<Declares(4)>>}

Says(method) == [valid |-> TRUE, method |-> method, hasId |-> TRUE, hasParams |-> TRUE]

MCMessages == {Says("shutdown"), Says("hover"), Says("didOpen"), Says("exit"),
    [Says("hover") EXCEPT !.hasId = FALSE]}
=============================================================================
