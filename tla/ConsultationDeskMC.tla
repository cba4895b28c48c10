------------------------ MODULE ConsultationDeskMC ------------------------
(* A small desk for TLC: two requests from one phone, the clients as the   *)
(* configuration says, and hour-long slots that meet at their ends.        *)
EXTENDS ConsultationDesk

CONSTANTS c1, c2

OneClient == [c \in Consultations |-> c1]
Hour(t) == [start |-> t, end |-> t + 1]
Hours == {Hour(1), Hour(2)}
=============================================================================
