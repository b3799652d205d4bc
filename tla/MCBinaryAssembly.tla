--------------------------- MODULE MCBinaryAssembly ---------------------------
\* AssemblyArgs: a packet that a null argument spoils and that stays in the slot,
\* one with two attachments at different places that takes the slot, and one
\* without attachments.
EXTENDS BinaryAssembly

AssemblyArgs == <<<<"null", "stream">>, <<"stream", "text", "stream">>, <<"null">>>>
=============================================================================
