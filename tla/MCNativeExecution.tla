-------------------------- MODULE MCNativeExecution -------------------------
(***************************************************************************)
(* Three calls on two occurrences: a synchronous step with a timeout, an   *)
(* asynchronous one without, and a call that uses the first occurrence     *)
(* again.                                                                  *)
(***************************************************************************)
EXTENDS NativeExecution, TLC

CONSTANTS c1, c2, c3, a, b

MCOccurrence == c1 :> a @@ c2 :> b @@ c3 :> a
MCMaxAttempts == c1 :> 2 @@ c2 :> 1 @@ c3 :> 1
=============================================================================
