----------------------------- MODULE MCDispatch -----------------------------
(* A mail and two webhooks for TLC.                                        *)
EXTENDS DispatchProps
=============================================================================
