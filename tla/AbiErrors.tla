------------------------------ MODULE AbiErrors ------------------------------
(***************************************************************************)
(* How an exception crosses the boundary between two modules: the callee   *)
(* catches it and returns a code (translate_current_exception), the caller *)
(* throws again what the code stands for (check_abi_result).  Messages are *)
(* left out.                                                               *)
(***************************************************************************)
EXTENDS Integers

Codes == -10 .. -1

Failure      == -1
NullPointer  == -3
NoInterface  == -6
KeyNotFound  == -8

(* The C interface answers it for a license that does not hold.            *)
Unlicensed == -99

(* What a parser_exception for a file that does not parse carries.         *)
JsonException == -98

(* The code of a standard exception.  A parser_exception and the errors of *)
(* the JSON library are std::exceptions and no more: the codes a           *)
(* parser_exception carries itself, JsonException for one, are lost.       *)
StandardCode ==
  [bad_alloc |-> -9, out_of_range |-> -5, invalid_argument |-> -4,
   format_error |-> -4, exception |-> -1]

(* The code an abi_error has after it was caught and thrown again.         *)
Rethrow(code) == IF code \in Codes THEN code ELSE Failure

(* The code of a standard exception on the other side of a boundary.       *)
Cross(type) == Rethrow(StandardCode[type])
=============================================================================
