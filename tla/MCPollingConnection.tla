------------------------ MODULE MCPollingConnection ------------------------
(***************************************************************************)
(* Small polling connections for TLC: a text message and a message with    *)
(* an attachment, each sent once by a thread of its own.                   *)
(***************************************************************************)
EXTENDS PollingConnection

CONSTANTS text, blob

TextAndBlob == [m \in Messages |-> IF m = blob THEN 1 ELSE 0]
=============================================================================
