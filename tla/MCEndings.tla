------------------------------ MODULE MCEndings ------------------------------
(***************************************************************************)
(* What must come to an end: uploads and analyses, each behind a gate of   *)
(* its own.  They share no state, so one of them moves while the other     *)
(* rests where it starts; a resting part has no request under way, and its *)
(* fairness asks for nothing.                                              *)
(***************************************************************************)
EXTENDS ReviewDesk

CONSTANTS c1, c2, Browsers, Uploads, Tokens, Households, MaxPreviews, MaxEra, MaxStarts

VARIABLES era, start, active, replacing, generation, previews, importGate, tab, upload, written

uploadVars == <<era, start, active, replacing, generation, previews, importGate, tab, upload, written>>

INSTANCE MCDeskSamples
P == INSTANCE ImportPreviews WITH Tabs <- Browsers, gate <- importGate

EndingsInit == Init /\ P!Init

EndingsNext ==
    \/ Init /\ P!Next /\ UNCHANGED vars
    \/ P!Init /\ Next /\ UNCHANGED uploadVars

EndingsSpec ==
    /\ EndingsInit /\ [][EndingsNext]_<<vars, uploadVars>>
    /\ Fairness
    /\ P!Fairness

\* Every upload ends, and gives the gate back for the next one
\* (handleBankUpload, importGate).
UploadsEnd == P!UploadsEnd
==============================================================================
