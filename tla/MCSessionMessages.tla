-------------------------- MODULE MCSessionMessages --------------------------
\* Three events of the server: one with two attachments, of which one is in a
\* list; one whose header says 0 attachments (its stream is in a Map); and one
\* that emit refuses.  Of the two answers, one has an attachment and one is a
\* list whose stream hasBinary does not see.
EXTENDS SessionMessages, TLC

CONSTANTS t1, t2, t3

EventArgs == (t1 :> <<"list", "stream">>) @@ (t2 :> <<"streamMap", "text">>)
               @@ (t3 :> <<"stream", "null">>)
Answers   == <<<<"stream">>, <<"list">>>>
=============================================================================
