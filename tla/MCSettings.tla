----------------------------- MODULE MCSettings -----------------------------
(* An instance of Settings for TLC: a setting, a resume, and a fix beside.   *)
EXTENDS Settings

CONSTANTS r1, r2, location, oslo, resume

TwoRequests == {r1, r2}
OneField == {location}
OneValue == {oslo}
OneFile == {resume}
=============================================================================
