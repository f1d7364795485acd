----------------------- MODULE MC_NotificationOutbox -----------------------
EXTENDS NotificationOutbox

CONSTANTS run, request, receipt, fanout

\* The scheduled run takes any item, the other one all but the notices.
KeysOfEach == [d \in {run, request} |-> IF d = run THEN Items ELSE {fanout, receipt}]

=============================================================================
