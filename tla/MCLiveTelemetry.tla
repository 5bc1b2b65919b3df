-------------------------- MODULE MCLiveTelemetry --------------------------
(* One or two agents; Sentry receives a few events around the moments the  *)
(* dashboard fetches, subscribes and loses its stream.                     *)
EXTENDS LiveTelemetry
=============================================================================
