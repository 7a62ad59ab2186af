----------------------------- MODULE MCWorkUaPoll -----------------------------
(* Small instances of WorkUaPoll for TLC. *)
EXTENDS WorkUaPoll

CONSTANTS p1, p2

BothPhones   == {p1, p2}
OneVacancy   == {1}
TwoVacancies == {1, 2}
NoFilter     == {}

Plain(v, p, label) ==
  [vacancy |-> v, phone |-> p, label |-> label, fits |-> TRUE, wellFormed |-> TRUE]

\* Of every kind: accepted, filtered, without a phone, unreadable.  A response
\* that is a phone call carries no text, which the profile filter rejects.
MixedResponses ==
  { Plain(1, p1, "workua_response_send"),
    Plain(1, p2, "workua_response_send"),
    [Plain(2, p2, "workua_response_phonecall") EXCEPT !.fits = FALSE],
    [Plain(2, NoPhone, "workua_response_send") EXCEPT !.fits = FALSE],
    [Plain(1, p1, "workua_response_send") EXCEPT !.wellFormed = FALSE] }

\* Responses that can be read, accepted or not.
SentResponses ==
  { Plain(1, p1, "workua_response_send"), Plain(2, p2, "workua_response_send"),
    [Plain(1, p1, "workua_response_send") EXCEPT !.fits = FALSE] }

Manual      == {"manual"}
OtherLabels == {"manual", "inbound_call", "workua_response"}
EveryFault  == FaultKinds

\* Failures after which the cursor is what it was.
Transient == {"poll_fails", "abort"}
=============================================================================
