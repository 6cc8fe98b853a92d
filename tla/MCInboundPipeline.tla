-------------------------- MODULE MCInboundPipeline --------------------------
(* InboundPipeline on small instances.                                     *)
EXTENDS InboundPipeline, TLC

CONSTANTS a, c, h1, h2

\* A command, a dispatch that is none, and a request for a code.
MCThree == <<a, Ignored, c>>
MCShort == <<a, c>>

=============================================================================
