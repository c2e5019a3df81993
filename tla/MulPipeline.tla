---------------------------- MODULE MulPipeline -----------------------------
(***************************************************************************)
(* What the multiplier promises, without its adders: a pipeline that takes *)
(* in one product an edge and hands it out three edges later, and requests *)
(* that age by one at each edge and are answered at the age of four.  The  *)
(* answer withdraws the younger requests.                                  *)
(***************************************************************************)
EXTENDS Integers, Sequences

CONSTANTS Operand, Opcode

VARIABLES products,       \* the products in flight, youngest first
          requests,       \* the ages of the requests in flight, in edges
          done            \* a request was answered at the last edge

pipeVars == <<products, requests, done>>

PipeInit ==
  /\ products = <<0, 0, 0>>
  /\ requests = {}
  /\ done = FALSE

Reset ==
  /\ products' = <<0, 0, 0>>
  /\ requests' = {}
  /\ done' = FALSE

\* An edge that takes in A * B and, if requested, a new request.
Take(A, B, requested) ==
  /\ products' = <<A * B, products[1], products[2]>>
  /\ IF done
     THEN /\ requests' = {}
          /\ done' = FALSE
     ELSE /\ requests' = {age + 1 : age \in requests \ {3}}
                           \cup (IF requested THEN {1} ELSE {})
          /\ done' = (3 \in requests)

PipeNext ==
  \/ Reset
  \/ \E A, B \in Operand, start \in BOOLEAN, opcode \in Opcode :
       Take(A, B, start /\ opcode = 4)

PipeSpec == PipeInit /\ [][PipeNext]_pipeVars
=============================================================================
